---- MODULE Spec2Model ----
(***************************************************************************)
(* Model of the autonomous scanning-and-execution pipeline of vibeagent:   *)
(* AgentConfig (config.py), ExecutionEngine (execution_engine.py) and the  *)
(* per-network dispatch of AutonomousScanner (autonomous_scanner.py).      *)
(***************************************************************************)
EXTENDS Integers, Naturals, Sequences, FiniteSets, TLC

\* ------------------------------------------------------------------------
\* Bounds of the model
\* ------------------------------------------------------------------------
MaxOpps == 2        \* opportunity objects handed to the engines in one run
MaxHistory == 2     \* execution records kept per engine in one run
MaxStored == 102    \* opportunities the scanner stores in one run
MaxLoops == 2       \* scan-loop threads created in one run
MaxErrors == 2      \* failures of scanning work injected in one run

\* ------------------------------------------------------------------------
\* Value domains
\* ------------------------------------------------------------------------
\* config.networks: one ExecutionEngine is built for each of them
EngineNetworks == {"ethereum", "polygon"}
\* the order in which config.networks and self.execution_engines list them
NetworkOrder == <<"ethereum", "polygon">>
\* networks a caller of the scanner may name
CallerNetworks == EngineNetworks \cup {"solana"}

\* opportunity.get("gas_price_gwei") when the key is absent (None)
NoGas == -1

\* str.lower() on the addresses of the model
Lower(a) ==
    CASE a = "0xA" -> "0xa"
      [] a = "0xB" -> "0xb"
      [] OTHER -> a

MinProfitValues == {50, 100}
MaxGasValues == {0, 100}
BlacklistValues == {<< >>, <<"0xA">>, <<"0xb", "0xa">>}
ScanIntervalValues == {30, 60}

ProfitValues == {0, 30, 50, 100}
GasValues == {NoGas, 0, 100, 150}
TokenPairValues == {<< >>, <<"0xa", "0xB">>, <<"0xB", "0xB">>}
\* "none": no strategy (None or {}); "ok": a strategy the transaction
\* builder converts; "raises": a strategy whose conversion raises
StrategyValues == {"none", "ok", "raises"}

\* no approval id, no opportunity object
NoId == [t |-> -1, k |-> -1]
NoOid == -1

VARIABLES
    config,              \* the shared AgentConfig
    avocado,             \* per engine: self.avocado is not None
    pending_approvals,   \* per engine: dict id -> record, in insertion order
    execution_history,   \* per engine: list of execution records
    now,                 \* int(time.time()), as read by the engines
    nextOid,             \* identity of the next opportunity object an engine keeps
    last,                \* the last call made and what it returned
    opportunities,       \* the scanner's deque of discovered opportunities
    result,              \* what the last query of the scanner returned
    is_running,          \* the scanner's running flag
    scan_thread,         \* self.scan_thread: the loop thread started last (0: None)
    loops,               \* the scan-loop threads and where each of them is
    callers,             \* the threads calling start() and stop()
    inflight,            \* engine calls in progress, per calling thread
    stats,               \* self.stats of the scanner: the counters the model follows
    cursor,              \* per scan-loop thread: where its scan iteration stands
    agents,              \* self.agents: the networks an agent could be built for
    connector,           \* the WalletConnector: its connection state
    executor             \* the AutonomousExecutor: thresholds and execution lists

engineVars == <<config, avocado, pending_approvals, execution_history, now, nextOid, last>>

scanVars == <<opportunities, result, is_running, scan_thread, loops, callers, inflight,
              stats, cursor, agents, connector, executor>>

vars == <<config, avocado, pending_approvals, execution_history, now, nextOid, last,
          opportunities, result, is_running, scan_thread, loops, callers, inflight,
          stats, cursor, agents, connector, executor>>

\* ------------------------------------------------------------------------
\* AgentConfig
\* ------------------------------------------------------------------------
SeqRange(s) == {s[i] : i \in 1..Len(s)}

SetBlacklist_keeps_old_entries(cfg, addresses) ==
    [cfg EXCEPT !.blacklisted_addresses = addresses,
                !.blacklisted_set = cfg.blacklisted_set
                                    \cup {Lower(a) : a \in SeqRange(addresses)}]

\* blacklisted_addresses.setter
SetBlacklist(cfg, addresses) ==
    [cfg EXCEPT !.blacklisted_addresses = addresses,
                !.blacklisted_set = {Lower(a) : a \in SeqRange(addresses)}]

is_address_blacklisted_case_sensitive(cfg, address) == address \in cfg.blacklisted_set

is_address_blacklisted(cfg, address) == Lower(address) \in cfg.blacklisted_set

is_profitable_strict(cfg, profit_usd) == profit_usd > cfg.min_profit_usd

is_profitable(cfg, profit_usd) == profit_usd >= cfg.min_profit_usd

is_gas_acceptable(cfg, gas_price_gwei) == gas_price_gwei <= cfg.max_gas_price_gwei

\* AgentConfig.__init__ with the wallet and approval mode of the environment
InitialConfig(wallet, manual) ==
    [min_profit_usd |-> 50,
     max_gas_price_gwei |-> 100,
     require_manual_approval |-> manual,
     blacklisted_addresses |-> << >>,
     blacklisted_set |-> {},
     scan_interval_seconds |-> 60,
     autonomous_mode |-> FALSE,
     avocado_wallet_address |-> wallet]

ConfigKeys == {"min_profit_usd", "max_gas_price_gwei", "require_manual_approval",
               "blacklisted_addresses", "scan_interval_seconds", "autonomous_mode",
               "not_a_field"}

\* the policy fields changed while the engines are in use
EngineConfigKeys == {"require_manual_approval", "not_a_field"}

ConfigValues(key) ==
    CASE key = "min_profit_usd" -> MinProfitValues
      [] key = "max_gas_price_gwei" -> MaxGasValues
      [] key = "require_manual_approval" -> BOOLEAN
      [] key = "blacklisted_addresses" -> BlacklistValues
      [] key = "scan_interval_seconds" -> ScanIntervalValues
      [] key = "autonomous_mode" -> BOOLEAN
      [] OTHER -> {0}

update_ignores_scan_interval(cfg, key, value) ==
    CASE key = "min_profit_usd" -> [cfg EXCEPT !.min_profit_usd = value]
      [] key = "max_gas_price_gwei" -> [cfg EXCEPT !.max_gas_price_gwei = value]
      [] key = "require_manual_approval" -> [cfg EXCEPT !.require_manual_approval = value]
      [] key = "blacklisted_addresses" -> SetBlacklist(cfg, value)
      [] key = "autonomous_mode" -> [cfg EXCEPT !.autonomous_mode = value]
      [] OTHER -> cfg

\* AgentConfig.update(key=value)
update(cfg, key, value) ==
    CASE key = "min_profit_usd" -> [cfg EXCEPT !.min_profit_usd = value]
      [] key = "max_gas_price_gwei" -> [cfg EXCEPT !.max_gas_price_gwei = value]
      [] key = "require_manual_approval" -> [cfg EXCEPT !.require_manual_approval = value]
      [] key = "blacklisted_addresses" -> SetBlacklist(cfg, value)
      [] key = "scan_interval_seconds" -> [cfg EXCEPT !.scan_interval_seconds = value]
      [] key = "autonomous_mode" -> [cfg EXCEPT !.autonomous_mode = value]
      [] OTHER -> cfg

\* ------------------------------------------------------------------------
\* ExecutionEngine: safety gate
\* ------------------------------------------------------------------------
ReasonProfit == "Profit below minimum"
ReasonGas == "Gas price exceeds maximum"
ReasonBlacklist == "Token is blacklisted"
ReasonWallet == "Avocado wallet not configured"
ReasonPassed == "All safety checks passed"

ProfitCheckFails(cfg, opp) == ~is_profitable(cfg, opp.estimated_profit_usd)

GasCheckFails(cfg, opp) ==
    /\ opp.gas_price_gwei # NoGas
    /\ opp.gas_price_gwei # 0
    /\ ~is_gas_acceptable(cfg, opp.gas_price_gwei)

BlacklistCheckFails(cfg, opp) ==
    \E i \in 1..Len(opp.token_pair) : is_address_blacklisted(cfg, opp.token_pair[i])

can_execute_gas_first(cfg, hasAvocado, opp) ==
    IF GasCheckFails(cfg, opp) THEN [ok |-> FALSE, reason |-> ReasonGas]
    ELSE IF ProfitCheckFails(cfg, opp) THEN [ok |-> FALSE, reason |-> ReasonProfit]
    ELSE IF BlacklistCheckFails(cfg, opp) THEN [ok |-> FALSE, reason |-> ReasonBlacklist]
    ELSE IF ~hasAvocado THEN [ok |-> FALSE, reason |-> ReasonWallet]
    ELSE [ok |-> TRUE, reason |-> ReasonPassed]

can_execute(cfg, hasAvocado, opp) ==
    IF ProfitCheckFails(cfg, opp) THEN [ok |-> FALSE, reason |-> ReasonProfit]
    ELSE IF GasCheckFails(cfg, opp) THEN [ok |-> FALSE, reason |-> ReasonGas]
    ELSE IF BlacklistCheckFails(cfg, opp) THEN [ok |-> FALSE, reason |-> ReasonBlacklist]
    ELSE IF ~hasAvocado THEN [ok |-> FALSE, reason |-> ReasonWallet]
    ELSE [ok |-> TRUE, reason |-> ReasonPassed]

\* ------------------------------------------------------------------------
\* Opportunities
\* ------------------------------------------------------------------------
OpportunitiesOf(profits, gases, pairs, strategies) ==
    [estimated_profit_usd : profits, gas_price_gwei : gases,
     token_pair : pairs, strategy : strategies, oid : {NoOid}]

\* inputs of the safety gate
GateOpportunities ==
    OpportunitiesOf(ProfitValues, GasValues, TokenPairValues, {"ok"})

\* opportunities handed to execute_opportunity
EngineOpportunities ==
    OpportunitiesOf({30, 100}, {50}, {<<"0xa", "0xB">>}, {"none", "ok"})

\* opportunities handed to submit_for_approval by its callers
SubmittedOpportunities == {o \in EngineOpportunities : o.estimated_profit_usd = 100}

NoOpp ==
    [estimated_profit_usd |-> 0, gas_price_gwei |-> NoGas, token_pair |-> << >>,
     strategy |-> "none", oid |-> NoOid]

\* ------------------------------------------------------------------------
\* ExecutionEngine: approvals and execution
\* ------------------------------------------------------------------------
Ids(pa) == {pa[i].approval_id : i \in 1..Len(pa)}

IndexOf(pa, id) == CHOOSE i \in 1..Len(pa) : pa[i].approval_id = id

\* self.pending_approvals[id] = record
DictPut(pa, id, rec) ==
    IF id \in Ids(pa) THEN [pa EXCEPT ![IndexOf(pa, id)] = rec] ELSE Append(pa, rec)

\* approval_id = f"approval_{int(time.time())}_{len(self.pending_approvals)}"
NewApprovalId(pa, t) == [t |-> t, k |-> Len(pa)]

submit_for_approval(pa, opp, t) ==
    LET id == NewApprovalId(pa, t) IN
    [approvals |-> DictPut(pa, id, [approval_id |-> id, opportunity |-> opp,
                                    status |-> "pending"]),
     ret |-> id]

\* prepare_transaction returns a transaction batch (TRUE) or None (FALSE)
prepare_transaction(hasAvocado, opp) ==
    IF opp.strategy = "none" THEN FALSE
    ELSE IF ~hasAvocado THEN FALSE
    ELSE opp.strategy = "ok"

\* _execute_opportunity
execute_internal(hist, hasAvocado, n, opp, t) ==
    IF ~prepare_transaction(hasAvocado, opp)
    THEN [history |-> hist, ret |-> FALSE]
    ELSE [history |-> Append(hist, [tx_hash |-> t,
                                     opportunity |-> opp,
                                     status |-> "success",
                                     actual_profit_usd |-> opp.estimated_profit_usd,
                                     network |-> n]),
          ret |-> TRUE]

begin_execution_at_front(hist, hasAvocado, n, opp, t) ==
    IF ~prepare_transaction(hasAvocado, opp)
    THEN [history |-> hist, ret |-> FALSE, idx |-> 0]
    ELSE [history |-> <<[tx_hash |-> t, opportunity |-> opp,
                         status |-> "submitted", network |-> n]>> \o hist,
          ret |-> TRUE,
          idx |-> 1]

\* _execute_opportunity up to self.execution_history.append(execution_record)
begin_execution(hist, hasAvocado, n, opp, t) ==
    IF ~prepare_transaction(hasAvocado, opp)
    THEN [history |-> hist, ret |-> FALSE, idx |-> 0]
    ELSE [history |-> Append(hist, [tx_hash |-> t, opportunity |-> opp,
                                     status |-> "submitted", network |-> n]),
          ret |-> TRUE,
          idx |-> Len(hist) + 1]

\* _execute_opportunity after the append: the record is marked success
finish_execution(hist, idx) ==
    [hist EXCEPT ![idx] = [tx_hash |-> hist[idx].tx_hash,
                           opportunity |-> hist[idx].opportunity,
                           status |-> "success",
                           actual_profit_usd |-> hist[idx].opportunity.estimated_profit_usd,
                           network |-> hist[idx].network]]

approve_transaction_no_execute(pa, hist, hasAvocado, n, id, t) ==
    IF id \notin Ids(pa)
    THEN [approvals |-> pa, history |-> hist, ret |-> FALSE]
    ELSE [approvals |-> [pa EXCEPT ![IndexOf(pa, id)].status = "approved"],
          history |-> hist,
          ret |-> TRUE]

\* approve_transaction of one engine
approve_transaction(pa, hist, hasAvocado, n, id, t) ==
    IF id \notin Ids(pa)
    THEN [approvals |-> pa, history |-> hist, ret |-> FALSE]
    ELSE LET i == IndexOf(pa, id)
             run == execute_internal(hist, hasAvocado, n, pa[i].opportunity, t)
         IN [approvals |-> [pa EXCEPT ![i].status = "approved"],
             history |-> run.history,
             ret |-> run.ret]

reject_transaction_no_lookup(pa, id) ==
    IF id \notin Ids(pa)
    THEN [approvals |-> pa, ret |-> TRUE]
    ELSE [approvals |-> [pa EXCEPT ![IndexOf(pa, id)].status = "rejected"],
          ret |-> TRUE]

\* reject_transaction of one engine
reject_transaction(pa, id) ==
    IF id \notin Ids(pa)
    THEN [approvals |-> pa, ret |-> FALSE]
    ELSE [approvals |-> [pa EXCEPT ![IndexOf(pa, id)].status = "rejected"],
          ret |-> TRUE]

execute_opportunity_unchecked(cfg, pa, hist, hasAvocado, n, opp, t) ==
    LET chk == can_execute(cfg, hasAvocado, opp)
        sub == submit_for_approval(pa, opp, t)
        run == execute_internal(hist, hasAvocado, n, opp, t)
    IN IF cfg.require_manual_approval
       THEN [approvals |-> sub.approvals, history |-> hist, ret |-> TRUE,
             id |-> sub.ret, reason |-> chk.reason]
       ELSE [approvals |-> pa, history |-> run.history, ret |-> run.ret, id |-> NoId,
             reason |-> chk.reason]

execute_opportunity_never_queues(cfg, pa, hist, hasAvocado, n, opp, t) ==
    LET chk == can_execute(cfg, hasAvocado, opp)
        run == execute_internal(hist, hasAvocado, n, opp, t)
    IN IF ~chk.ok
       THEN [approvals |-> pa, history |-> hist, ret |-> FALSE, id |-> NoId,
             reason |-> chk.reason]
       ELSE [approvals |-> pa, history |-> run.history, ret |-> run.ret, id |-> NoId,
             reason |-> chk.reason]

\* execute_opportunity of one engine
execute_opportunity(cfg, pa, hist, hasAvocado, n, opp, t) ==
    LET chk == can_execute(cfg, hasAvocado, opp)
        sub == submit_for_approval(pa, opp, t)
        run == execute_internal(hist, hasAvocado, n, opp, t)
    IN IF ~chk.ok
       THEN [approvals |-> pa, history |-> hist, ret |-> FALSE, id |-> NoId,
             reason |-> chk.reason]
       ELSE IF cfg.require_manual_approval
       THEN [approvals |-> sub.approvals, history |-> hist, ret |-> TRUE,
             id |-> sub.ret, reason |-> chk.reason]
       ELSE [approvals |-> pa, history |-> run.history, ret |-> run.ret, id |-> NoId,
             reason |-> chk.reason]

get_pending_approvals_unfiltered(pa) == pa

\* get_pending_approvals: the stored records whose status is pending, in order
get_pending_approvals(pa) == SelectSeq(pa, LAMBDA rec : rec.status = "pending")

RECURSIVE SumProfit(_)
SumProfit(hist) ==
    IF hist = << >> THEN 0
    ELSE (IF Head(hist).status = "success" THEN Head(hist).actual_profit_usd ELSE 0)
         + SumProfit(Tail(hist))

get_stats_profit_of_first(pa, hist) ==
    LET total == Len(hist)
        successful == Cardinality({i \in 1..Len(hist) : hist[i].status = "success"})
    IN [total_executions |-> total,
        successful |-> successful,
        failed |-> total - successful,
        total_profit_usd |-> IF hist = << >> THEN 0 ELSE SumProfit(<<Head(hist)>>),
        pending_approvals |-> Len(get_pending_approvals(pa))]

\* get_stats
get_stats(pa, hist) ==
    LET total == Len(hist)
        successful == Cardinality({i \in 1..Len(hist) : hist[i].status = "success"})
    IN [total_executions |-> total,
        successful |-> successful,
        failed |-> total - successful,
        total_profit_usd |-> SumProfit(hist),
        pending_approvals |-> Len(get_pending_approvals(pa))]

\* ------------------------------------------------------------------------
\* State machine
\* ------------------------------------------------------------------------
Call(op, n, id, opp, ret, reason) ==
    [op |-> op, network |-> n, id |-> id, opp |-> opp, ret |-> ret, reason |-> reason]

\* threads that call start() and stop(), scan-loop threads, and threads that
\* call into one engine at the same time
Callers == {"c1", "c2"}
LoopThreads == 1..MaxLoops
EngineThreads == {"t1", "t2"}

NoResult == [limit |-> 0, entries |-> << >>]

IdleCaller == [pc |-> "idle", joined |-> 0]

IdleCall == [pc |-> "idle", network |-> "none", id |-> NoId, opp |-> NoOpp, idx |-> 0]

\* a loop thread outside a scan iteration: the network and pair it stands at,
\* the networks entered, the pairs reached, the networks and pairs that failed
\* in its last iteration, and the length of its last sleep
IdleCursor ==
    [phase |-> "idle", net |-> 0, pair |-> 0, nets |-> {}, seen |-> {},
     failed |-> {}, raised |-> {}, slept |-> 0, asked |-> << >>, opp |-> NoOpp]

\* no wallet address (None)
NoAddress == "None"

\* WalletConnector(network="ethereum"): the connection state
NewWallet ==
    [network |-> "ethereum", connected |-> FALSE, wallet_address |-> NoAddress,
     connection_timestamp |-> -1, session_address |-> NoAddress]

\* AutonomousExecutor(agent, wallet_connector) with the thresholds of the
\* environment defaults
NewExecutor ==
    [min_profit_usd |-> 50, max_gas_price_gwei |-> 100,
     executed_opportunities |-> << >>, failed_opportunities |-> << >>]

\* self.stats of a new scanner
InitialStats ==
    [opportunities_found |-> 0, opportunities_executed |-> 0, total_profit_usd |-> 0,
     errors |-> 0]

\* AgentConfig(), then AutonomousScanner(config, logger): one engine per network,
\* and an agent for each network in built
Constructed(built) ==
    /\ \E wallet \in {"", "0xW"}, manual \in BOOLEAN :
          /\ config = InitialConfig(wallet, manual)
          /\ avocado = [n \in EngineNetworks |-> wallet # ""]
    /\ pending_approvals = [n \in EngineNetworks |-> << >>]
    /\ execution_history = [n \in EngineNetworks |-> << >>]
    /\ now = 0
    /\ nextOid = 0
    /\ last = Call("init", "none", NoId, NoOpp, FALSE, "")
    /\ opportunities = << >>
    /\ result = NoResult
    /\ is_running = FALSE
    /\ scan_thread = 0
    /\ loops = [t \in LoopThreads |-> "unborn"]
    /\ callers = [c \in Callers |-> IdleCaller]
    /\ inflight = [th \in EngineThreads |-> IdleCall]
    /\ stats = InitialStats
    /\ cursor = [t \in LoopThreads |-> IdleCursor]
    /\ agents = built
    /\ connector = NewWallet
    /\ executor = NewExecutor

\* the scanner constructed where every network has an RPC endpoint
Init == Constructed(EngineNetworks)

\* what a function without a return statement returns
NoneValue == "None"

\* a call update_config(key=value): it has no return statement and raises
\* nothing, whatever the key
UpdateCall(key, value) ==
    [op |-> "update_config", network |-> "none", id |-> NoId, opp |-> NoOpp,
     ret |-> FALSE, reason |-> "", key |-> key, value |-> value,
     returned |-> NoneValue]

\* AutonomousScanner.update_config(key=value)
UpdateConfig(key, value) ==
    /\ config' = update(config, key, value)
    /\ last' = UpdateCall(key, value)
    /\ UNCHANGED <<avocado, pending_approvals, execution_history, now, nextOid>>
    /\ UNCHANGED scanVars

\* ExecutionEngine.submit_for_approval(opportunity) on the engine of network n
SubmitForApproval(n, opp) ==
    /\ nextOid < MaxOpps
    /\ LET o == [opp EXCEPT !.oid = nextOid]
           r == submit_for_approval(pending_approvals[n], o, now)
       IN /\ pending_approvals' = [pending_approvals EXCEPT ![n] = r.approvals]
          /\ last' = Call("submit_for_approval", n, r.ret, o, TRUE, "")
    /\ nextOid' = nextOid + 1
    /\ UNCHANGED <<config, avocado, execution_history, now>>
    /\ UNCHANGED scanVars

\* ExecutionEngine.execute_opportunity(opportunity) on the engine of network n
ExecuteOpportunity(n, opp) ==
    /\ nextOid < MaxOpps
    /\ Len(execution_history[n]) < MaxHistory
    /\ LET o == [opp EXCEPT !.oid = nextOid]
           r == execute_opportunity(config, pending_approvals[n], execution_history[n],
                                    avocado[n], n, o, now)
       IN /\ pending_approvals' = [pending_approvals EXCEPT ![n] = r.approvals]
          /\ execution_history' = [execution_history EXCEPT ![n] = r.history]
          /\ last' = Call("execute_opportunity", n, r.id, o, r.ret, r.reason)
          \* the opportunity object stays alive only if an engine record holds it
          /\ nextOid' = IF r.approvals # pending_approvals[n] \/ r.history # execution_history[n]
                        THEN nextOid + 1 ELSE nextOid
    /\ UNCHANGED <<config, avocado, now>>
    /\ UNCHANGED scanVars

\* ids a caller may name: the ids stored by the engine and one never issued;
\* for a network without an engine, the first id any engine issues
NeverIssuedId == [t |-> 0, k |-> MaxOpps]

CallerIds(network) ==
    IF network \in EngineNetworks
    THEN Ids(pending_approvals[network]) \cup {NeverIssuedId}
    ELSE {[t |-> 0, k |-> 0]}

\* AutonomousScanner.approve_transaction(network, approval_id)
ApproveTransaction(network, id) ==
    /\ IF network \notin EngineNetworks
       THEN /\ last' = Call("approve_transaction", network, id, NoOpp, FALSE, "")
            /\ UNCHANGED <<pending_approvals, execution_history>>
       ELSE /\ Len(execution_history[network]) < MaxHistory
            /\ LET r == approve_transaction(pending_approvals[network],
                                            execution_history[network],
                                            avocado[network], network, id, now)
               IN /\ pending_approvals' = [pending_approvals EXCEPT ![network] = r.approvals]
                  /\ execution_history' = [execution_history EXCEPT ![network] = r.history]
                  /\ last' = Call("approve_transaction", network, id, NoOpp, r.ret, "")
    /\ UNCHANGED <<config, avocado, now, nextOid>>
    /\ UNCHANGED scanVars

\* AutonomousScanner.reject_transaction(network, approval_id)
RejectTransaction(network, id) ==
    /\ IF network \notin EngineNetworks
       THEN /\ last' = Call("reject_transaction", network, id, NoOpp, FALSE, "")
            /\ UNCHANGED pending_approvals
       ELSE LET r == reject_transaction(pending_approvals[network], id)
            IN /\ pending_approvals' = [pending_approvals EXCEPT ![network] = r.approvals]
               /\ last' = Call("reject_transaction", network, id, NoOpp, r.ret, "")
    /\ UNCHANGED <<config, avocado, execution_history, now, nextOid>>
    /\ UNCHANGED scanVars

Next ==
    \/ \E key \in EngineConfigKeys : \E value \in ConfigValues(key) : UpdateConfig(key, value)
    \/ \E n \in EngineNetworks, opp \in SubmittedOpportunities : SubmitForApproval(n, opp)
    \/ \E n \in EngineNetworks, opp \in EngineOpportunities : ExecuteOpportunity(n, opp)
    \/ \E network \in CallerNetworks : \E id \in CallerIds(network) :
          ApproveTransaction(network, id)
    \/ \E network \in CallerNetworks : \E id \in CallerIds(network) :
          RejectTransaction(network, id)

Spec == Init /\ [][Next]_vars

\* ------------------------------------------------------------------------
\* The safety gate alone: can_execute on every opportunity under every policy
\* ------------------------------------------------------------------------
\* ExecutionEngine.can_execute(opportunity) on the engine of network n
CanExecute(n, opp) ==
    /\ LET chk == can_execute(config, avocado[n], opp)
       IN last' = Call("can_execute", n, NoId, opp, chk.ok, chk.reason)
    /\ UNCHANGED <<config, avocado, pending_approvals, execution_history, now, nextOid>>
    /\ UNCHANGED scanVars

NextGate ==
    \/ \E key \in ConfigKeys : \E value \in ConfigValues(key) : UpdateConfig(key, value)
    \/ \E n \in EngineNetworks, opp \in GateOpportunities : CanExecute(n, opp)

SpecGate == Init /\ [][NextGate]_vars

\* ------------------------------------------------------------------------
\* Properties of the safety gate (checked under SpecGate)
\* ------------------------------------------------------------------------
GateCall == last.op = "can_execute"

\* the four checks, as the specification words them
ProfitTooLow(o) == o.estimated_profit_usd < config.min_profit_usd

GasTooHigh(o) ==
    o.gas_price_gwei # NoGas /\ o.gas_price_gwei > config.max_gas_price_gwei

Listed(token) ==
    \E j \in 1..Len(config.blacklisted_addresses) :
        Lower(config.blacklisted_addresses[j]) = Lower(token)

PairListed(o) == \E i \in 1..Len(o.token_pair) : Listed(o.token_pair[i])

NoBackend(n) == ~avocado[n]

\* C3: can_execute reports the first failing check in the order profit, gas
\* price, blacklist, execution backend; when both the profit and the gas price
\* are out of bounds the reason is the profit reason.
C3_FirstFailingCheckReported ==
    GateCall =>
        LET o == last.opp IN
        /\ ProfitTooLow(o) => last.reason = ReasonProfit
        /\ ~ProfitTooLow(o) /\ GasTooHigh(o) => last.reason = ReasonGas
        /\ ~ProfitTooLow(o) /\ ~GasTooHigh(o) /\ PairListed(o)
              => last.reason = ReasonBlacklist
        /\ ~ProfitTooLow(o) /\ ~GasTooHigh(o) /\ ~PairListed(o) /\ NoBackend(last.network)
              => last.reason = ReasonWallet

C3_Witness ==
    /\ GateCall
    /\ ProfitTooLow(last.opp) /\ GasTooHigh(last.opp) /\ PairListed(last.opp)
    /\ last.reason = ReasonProfit

\* C4: can_execute returns (true, "All safety checks passed") exactly when the
\* profit is at least the minimum, a reported gas price is at most the maximum,
\* no token of the pair is blacklisted (case-insensitively) and a backend is
\* available; otherwise it returns false with the reason of a failed check.
C4_PassesIffAllChecksPass ==
    GateCall =>
        LET o == last.opp
            allPass == /\ ~ProfitTooLow(o)
                       /\ ~GasTooHigh(o)
                       /\ ~PairListed(o)
                       /\ ~NoBackend(last.network)
        IN /\ last.ret <=> allPass
           /\ last.ret => last.reason = ReasonPassed
           /\ ~last.ret =>
                 last.reason \in {ReasonProfit, ReasonGas, ReasonBlacklist, ReasonWallet}

C4_Witness ==
    /\ GateCall /\ last.ret
    /\ last.opp.estimated_profit_usd = config.min_profit_usd
    /\ last.opp.gas_price_gwei = config.max_gas_price_gwei
    /\ last.opp.token_pair # << >>
    /\ config.blacklisted_addresses # << >>

\* C5: can_execute rejects with the profit reason exactly when the profit is
\* below the policy minimum (a profit equal to the minimum is accepted by the
\* profit check), whatever the gas price, the token pair and the backend are.
C5_ProfitReasonIffBelowMinimum ==
    GateCall =>
        (last.reason = ReasonProfit <=>
            last.opp.estimated_profit_usd < config.min_profit_usd)

C5_Witness ==
    /\ GateCall
    /\ last.opp.estimated_profit_usd = config.min_profit_usd
    /\ GasTooHigh(last.opp)
    /\ ~last.ret /\ last.reason = ReasonGas

\* ------------------------------------------------------------------------
\* Properties of the approval workflow (checked under Spec)
\* ------------------------------------------------------------------------
\* number of execution records of a history that hold the opportunity object oid
ExecCount(hist, oid) ==
    Cardinality({j \in 1..Len(hist) : hist[j].opportunity.oid = oid})

PendingIds(pa) ==
    {get_pending_approvals(pa)[i].approval_id : i \in 1..Len(get_pending_approvals(pa))}

EngineCall(op) == last'.op = op /\ last'.network \in EngineNetworks

EnginesUnchanged ==
    /\ UNCHANGED <<pending_approvals, execution_history>>
    /\ \A n \in EngineNetworks :
          get_stats(pending_approvals'[n], execution_history'[n])
              = get_stats(pending_approvals[n], execution_history[n])

\* C1: whatever approve_transaction and reject_transaction calls are made on
\* one approval id, the opportunity of its record is executed at most once.
C1_ExecutedAtMostOnce ==
    \A n \in EngineNetworks : \A i \in 1..Len(pending_approvals[n]) :
        ExecCount(execution_history[n], pending_approvals[n][i].opportunity.oid) <= 1

\* C2: rejected is terminal: a record whose status is rejected keeps that
\* status in every later state, and its opportunity is never executed.
C2_RejectedIsTerminal ==
    [][\A n \in EngineNetworks : \A i \in 1..Len(pending_approvals[n]) :
          pending_approvals[n][i].status = "rejected" =>
              /\ pending_approvals'[n][i].status = "rejected"
              /\ ExecCount(execution_history'[n],
                           pending_approvals[n][i].opportunity.oid) = 0]_vars

C7_UnknownIdChangesNothing ==
    [][(/\ last'.op \in {"approve_transaction", "reject_transaction"}
        /\ \/ last'.network \notin EngineNetworks
           \/ last'.id \notin Ids(pending_approvals[last'.network]))
       => (~last'.ret /\ EnginesUnchanged)]_vars

C7_Witness ==
    /\ last.op \in {"approve_transaction", "reject_transaction"}
    /\ last.network \in EngineNetworks
    /\ last.id \notin Ids(pending_approvals[last.network])
    /\ ~last.ret
    /\ Len(pending_approvals[last.network]) > 0
    /\ Len(execution_history[last.network]) > 0

\* C8: when can_execute fails, execute_opportunity returns false, creates no
\* approval record and no execution record, and leaves the statistics unchanged.
C8_GateFailureChangesNothing ==
    [][(/\ EngineCall("execute_opportunity")
        /\ ~can_execute(config, avocado[last'.network], last'.opp).ok)
       => (~last'.ret /\ EnginesUnchanged)]_vars

C8_Witness ==
    /\ last.op = "execute_opportunity" /\ ~last.ret
    /\ last.reason = ReasonProfit
    /\ Len(pending_approvals[last.network]) > 0

\* C9: when can_execute passes and manual approval is required,
\* execute_opportunity stores exactly one new pending record for the
\* opportunity, returns true and appends no execution record; an execution
\* record for a stored opportunity appears only in an approve_transaction
\* step on the id of its record.
C9_QueuedNotExecuted ==
    [][\A n \in EngineNetworks :
          /\ (/\ EngineCall("execute_opportunity") /\ last'.network = n
              /\ can_execute(config, avocado[n], last'.opp).ok
              /\ config.require_manual_approval)
             => /\ last'.ret
                /\ last'.id \notin Ids(pending_approvals[n])
                /\ pending_approvals'[n] =
                      Append(pending_approvals[n],
                             [approval_id |-> last'.id, opportunity |-> last'.opp,
                              status |-> "pending"])
                /\ UNCHANGED execution_history
          /\ \A i \in 1..Len(pending_approvals[n]) :
                LET rec == pending_approvals[n][i] IN
                ExecCount(execution_history'[n], rec.opportunity.oid)
                    > ExecCount(execution_history[n], rec.opportunity.oid)
                => /\ last'.op = "approve_transaction"
                   /\ last'.network = n
                   /\ last'.id = rec.approval_id]_vars

C9_Witness ==
    /\ last.op = "execute_opportunity" /\ last.ret /\ last.id # NoId
    /\ config.require_manual_approval
    /\ Len(pending_approvals[last.network]) = 2
    /\ pending_approvals[last.network][2].approval_id = last.id
    /\ pending_approvals[last.network][2].status = "pending"
    /\ ExecCount(execution_history[last.network], last.opp.oid) = 0

\* C10: get_pending_approvals returns exactly the records whose status is
\* pending: submit_for_approval adds exactly one entry, carrying the returned
\* id; approve_transaction or reject_transaction on a stored id removes that
\* id's entry and no other; resolved records never appear.
C10_PendingListing ==
    [][\A n \in EngineNetworks :
          LET before == get_pending_approvals(pending_approvals[n])
              after == get_pending_approvals(pending_approvals'[n])
          IN /\ \A i \in 1..Len(after) : after[i].status = "pending"
             /\ \A i \in 1..Len(pending_approvals'[n]) :
                   pending_approvals'[n][i].status = "pending"
                   => pending_approvals'[n][i].approval_id \in PendingIds(pending_approvals'[n])
             /\ (EngineCall("submit_for_approval") /\ last'.network = n)
                => /\ last'.id \notin PendingIds(pending_approvals[n])
                   /\ after = Append(before, [approval_id |-> last'.id,
                                              opportunity |-> last'.opp,
                                              status |-> "pending"])
             /\ (/\ last'.op \in {"approve_transaction", "reject_transaction"}
                 /\ last'.network = n
                 /\ last'.id \in Ids(pending_approvals[n]))
                => /\ last'.id \notin PendingIds(pending_approvals'[n])
                   /\ PendingIds(pending_approvals'[n])
                         = PendingIds(pending_approvals[n]) \ {last'.id}]_vars

C10_Witness ==
    /\ last.op \in {"approve_transaction", "reject_transaction"}
    /\ last.network \in EngineNetworks
    /\ Len(pending_approvals[last.network]) = 2
    /\ last.id \in Ids(pending_approvals[last.network])
    /\ Len(get_pending_approvals(pending_approvals[last.network])) = 1
    /\ get_pending_approvals(pending_approvals[last.network])[1].approval_id # last.id

\* ------------------------------------------------------------------------
\* AutonomousScanner: the bounded opportunity history
\* ------------------------------------------------------------------------
\* self.max_opportunities_history
max_opportunities_history == 100

deque_append_unbounded(dq, x, maxlen) == Append(dq, x)

\* collections.deque(maxlen=maxlen).append(x)
deque_append(dq, x, maxlen) ==
    IF Len(dq) >= maxlen THEN Append(Tail(dq), x) ELSE Append(dq, x)

\* _store_opportunity
store_opportunity(dq, opp) == deque_append(dq, opp, max_opportunities_history)

\* s[start:] of a Python list
PySliceFrom(s, start) ==
    LET n == Len(s)
        from == IF start < 0
                THEN (IF n + start < 0 THEN 0 ELSE n + start)
                ELSE (IF start > n THEN n ELSE start)
    IN SubSeq(s, from + 1, n)

\* get_opportunities(limit): list(self.opportunities)[-limit:]
get_opportunities(dq, limit) == PySliceFrom(dq, 0 - limit)

\* the opportunity a scan stores (autonomous mode: no strategy attached)
HistoryOpportunities == OpportunitiesOf({100}, {NoGas}, {<<"0xa", "0xB">>}, {"none"})

\* limits a caller passes to get_opportunities (20 is the default)
Limits == {0, 1, 20, 100, 101}

\* AutonomousScanner._store_opportunity(opportunity), as the scan loop calls it
StoreOpportunity(opp) ==
    /\ nextOid < MaxStored
    /\ opportunities' = store_opportunity(opportunities, [opp EXCEPT !.oid = nextOid])
    /\ nextOid' = nextOid + 1
    /\ UNCHANGED <<config, avocado, pending_approvals, execution_history, now, last>>
    /\ UNCHANGED <<result, is_running, scan_thread, loops, callers, inflight>>
    /\ UNCHANGED <<stats, cursor, agents, connector, executor>>

\* AutonomousScanner.get_opportunities(limit)
GetOpportunities(limit) ==
    /\ result' = [limit |-> limit, entries |-> get_opportunities(opportunities, limit)]
    /\ UNCHANGED engineVars
    /\ UNCHANGED <<opportunities, is_running, scan_thread, loops, callers, inflight>>
    /\ UNCHANGED <<stats, cursor, agents, connector, executor>>

NextHistory ==
    \/ \E opp \in HistoryOpportunities : StoreOpportunity(opp)
    \/ \E limit \in Limits : GetOpportunities(limit)

SpecHistory == Init /\ [][NextHistory]_vars

\* C16: the opportunity history never holds more than its capacity: its
\* length is min(number stored, capacity) and it is always the last
\* `capacity` stored opportunities, oldest first.
C16_BoundedFifoHistory ==
    LET n == Len(opportunities) IN
    /\ n <= max_opportunities_history
    /\ n = (IF nextOid < max_opportunities_history THEN nextOid
            ELSE max_opportunities_history)
    /\ \A i \in 1..n : opportunities[i].oid = nextOid - n + i - 1

C16_Witness ==
    /\ nextOid = max_opportunities_history + 2
    /\ Len(opportunities) = max_opportunities_history
    /\ opportunities[1].oid = 2
    /\ opportunities[max_opportunities_history].oid = nextOid - 1

\* C20: get_opportunities(limit) returns at most limit entries, for every
\* limit >= 0, and they are the most recently stored ones.
C20_LimitBoundsResult ==
    /\ Len(result.entries) <= result.limit
    /\ \A i \in 1..Len(result.entries) :
          Len(result.entries) <= Len(opportunities)
          /\ result.entries[i] =
                opportunities[Len(opportunities) - Len(result.entries) + i]

\* ------------------------------------------------------------------------
\* AgentConfig alone: assignments to the policy and blacklist queries
\* ------------------------------------------------------------------------
\* addresses a caller asks about
Addresses == {"0xa", "0xA", "0xb", "0xB", "0xc"}

\* config.blacklisted_addresses = addresses
AssignBlacklist(addresses) ==
    /\ config' = SetBlacklist(config, addresses)
    /\ last' = Call("assign_blacklist", "none", NoId, NoOpp, FALSE, "")
    /\ UNCHANGED <<avocado, pending_approvals, execution_history, now, nextOid>>
    /\ UNCHANGED scanVars

\* config.is_address_blacklisted(address); the address asked about is kept
\* in the reason field of the call
IsAddressBlacklisted(address) ==
    /\ last' = Call("is_address_blacklisted", "none", NoId, NoOpp,
                    is_address_blacklisted(config, address), address)
    /\ UNCHANGED <<config, avocado, pending_approvals, execution_history, now, nextOid>>
    /\ UNCHANGED scanVars

NextConfig ==
    \/ \E key \in ConfigKeys : \E value \in ConfigValues(key) : UpdateConfig(key, value)
    \/ \E addresses \in BlacklistValues : AssignBlacklist(addresses)
    \/ \E address \in Addresses : IsAddressBlacklisted(address)

SpecConfig == Init /\ [][NextConfig]_vars

\* address a is, ignoring case, an entry of the list held by the configuration
InAssignedList(a) ==
    \E j \in 1..Len(config.blacklisted_addresses) :
        Lower(config.blacklisted_addresses[j]) = Lower(a)

\* C19: after any sequence of assignments to the blacklist, directly or
\* through update, an address is reported blacklisted exactly when it is,
\* ignoring case, in the most recently assigned list.
C19_BlacklistFollowsLastAssignment ==
    /\ \A a \in Addresses : is_address_blacklisted(config, a) <=> InAssignedList(a)
    /\ last.op = "is_address_blacklisted" => (last.ret <=> InAssignedList(last.reason))

C19_Witness ==
    /\ last.op = "is_address_blacklisted"
    /\ last.reason = "0xa"
    /\ last.ret
    /\ config.blacklisted_addresses = <<"0xA">>
    /\ ~is_address_blacklisted(config, "0xB")

\* ------------------------------------------------------------------------
\* Statistics of the engines (checked under Spec)
\* ------------------------------------------------------------------------
\* a call that reached _execute_opportunity on the engine of network n
AttemptedExecution(n) ==
    /\ last'.network = n
    /\ \/ EngineCall("approve_transaction") /\ last'.id \in Ids(pending_approvals[n])
       \/ /\ EngineCall("execute_opportunity")
          /\ last'.reason = ReasonPassed
          /\ ~config.require_manual_approval

\* C13: when an execution attempt fails (the batch cannot be prepared or an
\* exception is raised) the attempt is recorded with status failed, the
\* failed count goes up by one and the total profit stays as it was.
C13_FailedAttemptIsRecorded ==
    [][\A n \in EngineNetworks :
          (AttemptedExecution(n) /\ ~last'.ret)
          =>
          LET h == execution_history[n]
              h2 == execution_history'[n]
              s == get_stats(pending_approvals[n], h)
              s2 == get_stats(pending_approvals'[n], h2)
          IN /\ Len(h2) = Len(h) + 1
             /\ h2[Len(h2)].status = "failed"
             /\ s2.failed = s.failed + 1
             /\ s2.total_profit_usd = s.total_profit_usd]_vars

SubmitRead(th, n, opp) ==
    /\ inflight[th].pc = "idle"
    /\ nextOid < MaxOpps
    /\ inflight' = [inflight EXCEPT ![th] =
                      [pc |-> "submit_store", network |-> n,
                       id |-> NewApprovalId(pending_approvals[n], now),
                       opp |-> [opp EXCEPT !.oid = nextOid], idx |-> 0]]
    /\ nextOid' = nextOid + 1
    /\ UNCHANGED <<config, avocado, pending_approvals, execution_history, now, last>>
    /\ UNCHANGED <<opportunities, result, is_running, scan_thread, loops, callers>>
    /\ UNCHANGED <<stats, cursor, agents, connector, executor>>

\* submit_for_approval, second statement: self.pending_approvals[id] = record
SubmitStore(th) ==
    /\ inflight[th].pc = "submit_store"
    /\ LET c == inflight[th] IN
       /\ pending_approvals' =
             [pending_approvals EXCEPT ![c.network] =
                 DictPut(pending_approvals[c.network], c.id,
                         [approval_id |-> c.id, opportunity |-> c.opp,
                          status |-> "pending"])]
       /\ last' = Call("submit_for_approval", c.network, c.id, c.opp, TRUE, "")
    /\ inflight' = [inflight EXCEPT ![th] = IdleCall]
    /\ UNCHANGED <<config, avocado, execution_history, now, nextOid>>
    /\ UNCHANGED <<opportunities, result, is_running, scan_thread, loops, callers>>
    /\ UNCHANGED <<stats, cursor, agents, connector, executor>>

\* approve_transaction up to the append of the execution record
ApproveBegin(th, n, id) ==
    /\ inflight[th].pc = "idle"
    /\ Len(execution_history[n]) < MaxHistory
    /\ IF id \notin Ids(pending_approvals[n])
       THEN /\ last' = Call("approve_transaction", n, id, NoOpp, FALSE, "")
            /\ UNCHANGED <<pending_approvals, execution_history, inflight>>
       ELSE LET pa == pending_approvals[n]
                i == IndexOf(pa, id)
                b == begin_execution(execution_history[n], avocado[n], n,
                                     pa[i].opportunity, now)
            IN /\ pending_approvals' =
                     [pending_approvals EXCEPT ![n] = [pa EXCEPT ![i].status = "approved"]]
               /\ execution_history' = [execution_history EXCEPT ![n] = b.history]
               /\ IF b.ret
                  THEN /\ inflight' = [inflight EXCEPT ![th] =
                                         [pc |-> "exec_finish", network |-> n, id |-> id,
                                          opp |-> NoOpp, idx |-> b.idx]]
                       /\ UNCHANGED last
                  ELSE /\ last' = Call("approve_transaction", n, id, NoOpp, FALSE, "")
                       /\ UNCHANGED inflight
    /\ UNCHANGED <<config, avocado, now, nextOid>>
    /\ UNCHANGED <<opportunities, result, is_running, scan_thread, loops, callers>>
    /\ UNCHANGED <<stats, cursor, agents, connector, executor>>

\* approve_transaction from the append on: the record becomes success
ExecFinish(th) ==
    /\ inflight[th].pc = "exec_finish"
    /\ LET c == inflight[th] IN
       /\ execution_history' =
             [execution_history EXCEPT ![c.network] =
                 finish_execution(execution_history[c.network], c.idx)]
       /\ last' = Call("approve_transaction", c.network, c.id, NoOpp, TRUE, "")
    /\ inflight' = [inflight EXCEPT ![th] = IdleCall]
    /\ UNCHANGED <<config, avocado, pending_approvals, now, nextOid>>
    /\ UNCHANGED <<opportunities, result, is_running, scan_thread, loops, callers>>
    /\ UNCHANGED <<stats, cursor, agents, connector, executor>>

\* the engine the threads of this specification call into
ConcNetworks == {"ethereum"}

NextConc ==
    \/ \E th \in EngineThreads, n \in ConcNetworks, opp \in SubmittedOpportunities :
          SubmitRead(th, n, opp)
    \/ \E th \in EngineThreads : SubmitStore(th)
    \/ \E th \in EngineThreads, n \in ConcNetworks :
          \E id \in CallerIds(n) : ApproveBegin(th, n, id)
    \/ \E th \in EngineThreads : ExecFinish(th)
    \/ \E n \in ConcNetworks : \E id \in CallerIds(n) : RejectTransaction(n, id)

SpecConc == Init /\ [][NextConc]_vars

\* opportunity o is held by an approval record of some engine
Stored(o) ==
    \E n \in EngineNetworks : \E i \in 1..Len(pending_approvals[n]) :
        pending_approvals[n][i].opportunity.oid = o

\* C11: the ids submit_for_approval returns are unique within an engine, also
\* for two concurrent submissions: no approval record is overwritten, so every
\* submission that has returned still has its record.
C11_NoRecordOverwritten ==
    \A o \in 0..(nextOid - 1) :
        \/ Stored(o)
        \/ \E th \in EngineThreads :
              inflight[th].pc = "submit_store" /\ inflight[th].opp.oid = o

CountStatus(hist, status) == Cardinality({i \in 1..Len(hist) : hist[i].status = status})

Terminal(rec) == rec.status \in {"success", "failed"}

\* C12: the execution history is append-only: a record is created as
\* submitted, makes at most one transition, to success or failed, never
\* changes afterwards, and is never removed or moved.
C12_HistoryAppendOnly ==
    [][\A n \in EngineNetworks :
          LET h == execution_history[n]
              h2 == execution_history'[n]
          IN /\ Len(h2) >= Len(h)
             /\ \A i \in 1..Len(h) :
                   \/ h2[i] = h[i]
                   \/ /\ h[i].status = "submitted"
                      /\ Terminal(h2[i])
                      /\ h2[i].opportunity = h[i].opportunity
                      /\ h2[i].tx_hash = h[i].tx_hash
             /\ \A i \in (Len(h) + 1)..Len(h2) : h2[i].status = "submitted"]_vars

C12_Witness ==
    \E n \in EngineNetworks :
        /\ Len(execution_history[n]) = 2
        /\ execution_history[n][1].status = "success"
        /\ execution_history[n][2].status = "submitted"
        /\ \E th \in EngineThreads :
              inflight[th].pc = "exec_finish" /\ inflight[th].idx = 2

\* C14: in every reachable state, also between the append of a record and its
\* terminal transition, get_stats satisfies successful + failed = total,
\* successful and failed are the numbers of success and failed records, and
\* the total profit is the sum over the success records.
C14_StatsMatchRecords ==
    \A n \in EngineNetworks :
        LET h == execution_history[n]
            s == get_stats(pending_approvals[n], h)
        IN /\ s.successful + s.failed = s.total_executions
           /\ s.successful = CountStatus(h, "success")
           /\ s.failed = CountStatus(h, "failed")
           /\ s.total_profit_usd = SumProfit(h)

\* ------------------------------------------------------------------------
\* AutonomousScanner: start(), stop() and the scan loop, statement by statement
\* ------------------------------------------------------------------------
loop_condition_ignores_flag(running) == TRUE

\* while self.is_running
loop_condition(running) == running

Live(t) == loops[t] \in {"test", "scanning", "sleeping"}

Unborn == {t \in LoopThreads : loops[t] = "unborn"}

Starting == {c \in Callers : callers[c].pc \in {"start_set", "start_spawn"}}

\* start(): if self.is_running: return
StartCheck(c) ==
    /\ callers[c].pc = "idle"
    /\ Cardinality(Unborn) > Cardinality(Starting)
    /\ last' = Call("start", "none", NoId, NoOpp, ~is_running, "")
    /\ callers' = [callers EXCEPT ![c].pc = IF is_running THEN "idle" ELSE "start_set"]
    /\ UNCHANGED <<config, avocado, pending_approvals, execution_history, now, nextOid>>
    /\ UNCHANGED <<opportunities, result, is_running, scan_thread, loops, inflight>>
    /\ UNCHANGED <<stats, cursor, agents, connector, executor>>

\* start(): self.is_running = True
StartSet(c) ==
    /\ callers[c].pc = "start_set"
    /\ is_running' = TRUE
    /\ callers' = [callers EXCEPT ![c].pc = "start_spawn"]
    /\ UNCHANGED engineVars
    /\ UNCHANGED <<opportunities, result, scan_thread, loops, inflight>>
    /\ UNCHANGED <<stats, cursor, agents, connector, executor>>

\* start(): self.scan_thread = Thread(target=self._scan_loop); self.scan_thread.start()
StartSpawn(c) ==
    /\ callers[c].pc = "start_spawn"
    /\ LET t == CHOOSE u \in Unborn : \A v \in Unborn : u <= v IN
       /\ scan_thread' = t
       /\ loops' = [loops EXCEPT ![t] = "test"]
    /\ callers' = [callers EXCEPT ![c].pc = "idle"]
    /\ UNCHANGED engineVars
    /\ UNCHANGED <<opportunities, result, is_running, inflight>>
    /\ UNCHANGED <<stats, cursor, agents, connector, executor>>

\* stop(): if not self.is_running: return
StopCheck(c) ==
    /\ callers[c].pc = "idle"
    /\ last' = Call("stop", "none", NoId, NoOpp, is_running, "")
    /\ callers' = [callers EXCEPT ![c].pc = IF is_running THEN "stop_clear" ELSE "idle"]
    /\ UNCHANGED <<config, avocado, pending_approvals, execution_history, now, nextOid>>
    /\ UNCHANGED <<opportunities, result, is_running, scan_thread, loops, inflight>>
    /\ UNCHANGED <<stats, cursor, agents, connector, executor>>

\* stop(): self.is_running = False; if self.scan_thread: the join begins
StopClear(c) ==
    /\ callers[c].pc = "stop_clear"
    /\ is_running' = FALSE
    /\ callers' = [callers EXCEPT ![c] =
                     IF scan_thread # 0
                     THEN [pc |-> "stop_join", joined |-> scan_thread]
                     ELSE IdleCaller]
    /\ UNCHANGED engineVars
    /\ UNCHANGED <<opportunities, result, scan_thread, loops, inflight>>
    /\ UNCHANGED <<stats, cursor, agents, connector, executor>>

\* stop(): self.scan_thread.join(timeout=5) returns because the thread ended
JoinReturns(c) ==
    /\ callers[c].pc = "stop_join"
    /\ loops[callers[c].joined] = "done"
    /\ callers' = [callers EXCEPT ![c] = IdleCaller]
    /\ UNCHANGED engineVars
    /\ UNCHANGED <<opportunities, result, is_running, scan_thread, loops, inflight>>
    /\ UNCHANGED <<stats, cursor, agents, connector, executor>>

\* stop(): self.scan_thread.join(timeout=5) returns because the five seconds
\* passed while the thread was still scanning or sleeping
JoinTimesOut(c) ==
    /\ callers[c].pc = "stop_join"
    /\ loops[callers[c].joined] # "done"
    /\ callers' = [callers EXCEPT ![c] = IdleCaller]
    /\ UNCHANGED engineVars
    /\ UNCHANGED <<opportunities, result, is_running, scan_thread, loops, inflight>>
    /\ UNCHANGED <<stats, cursor, agents, connector, executor>>

\* _scan_loop: the test of the while statement
LoopTest(t) ==
    /\ loops[t] = "test"
    /\ loops' = [loops EXCEPT ![t] = IF loop_condition(is_running) THEN "scanning"
                                     ELSE "done"]
    /\ UNCHANGED engineVars
    /\ UNCHANGED <<opportunities, result, is_running, scan_thread, callers, inflight>>
    /\ UNCHANGED <<stats, cursor, agents, connector, executor>>

\* config.monitored_token_pairs: pairs that share a token
MonitoredPairs == <<<<"0xa", "0xB">>, <<"0xB", "0xc">>>>

\* the networks and the pairs of one scan iteration, by position
NetworkPositions == 1..Len(NetworkOrder)
PairPositions == 1..Len(MonitoredPairs)

\* time.sleep(10) of the handler at the top of the loop
error_backoff_seconds == 10

PairBlacklisted_last_token_only(cfg, pair) ==
    pair # << >> /\ is_address_blacklisted(cfg, pair[Len(pair)])

\* any(self.config.is_address_blacklisted(token) for token in token_pair)
PairBlacklisted(cfg, pair) ==
    \E i \in 1..Len(pair) : is_address_blacklisted(cfg, pair[i])

\* the pairs of all networks in the order the two for statements reach them
ScanOrder ==
    [i \in 1..(Len(NetworkOrder) * Len(MonitoredPairs)) |->
        <<((i - 1) \div Len(MonitoredPairs)) + 1, ((i - 1) % Len(MonitoredPairs)) + 1>>]

\* the cursor of a thread whose iteration scanned everything without a failure
\* and then slept for the configured interval
CompletedCursor(cfg) ==
    [phase |-> "idle", net |-> Len(NetworkOrder) + 1, pair |-> Len(MonitoredPairs) + 1,
     nets |-> NetworkPositions, seen |-> NetworkPositions \X PairPositions,
     failed |-> {}, raised |-> {}, slept |-> cfg.scan_interval_seconds,
     asked |-> SelectSeq(ScanOrder,
                         LAMBDA e : ~PairBlacklisted(cfg, MonitoredPairs[e[2]])),
     opp |-> NoOpp]

\* _scan_loop: one whole iteration in which nothing fails and no opportunity
\* is found, taken as one step; the thread then sleeps
LoopScan(t) ==
    /\ loops[t] = "scanning"
    /\ cursor[t].phase = "idle"
    /\ loops' = [loops EXCEPT ![t] = "sleeping"]
    /\ cursor' = [cursor EXCEPT ![t] = CompletedCursor(config)]
    /\ UNCHANGED engineVars
    /\ UNCHANGED <<opportunities, result, is_running, scan_thread, callers, inflight>>
    /\ UNCHANGED <<stats, agents, connector, executor>>

\* _scan_loop: time.sleep(...) returns
LoopWake(t) ==
    /\ loops[t] = "sleeping"
    /\ loops' = [loops EXCEPT ![t] = "test"]
    /\ UNCHANGED engineVars
    /\ UNCHANGED <<opportunities, result, is_running, scan_thread, callers, inflight>>
    /\ UNCHANGED <<stats, cursor, agents, connector, executor>>

LoopStep(t) == LoopTest(t) \/ LoopScan(t) \/ LoopWake(t)

NextLoop ==
    \/ \E c \in Callers : StartCheck(c)
    \/ \E c \in Callers : StartSet(c)
    \/ \E c \in Callers : StartSpawn(c)
    \/ \E c \in Callers : StopCheck(c)
    \/ \E c \in Callers : StopClear(c)
    \/ \E c \in Callers : JoinReturns(c)
    \/ \E c \in Callers : JoinTimesOut(c)
    \/ \E t \in LoopThreads : LoopTest(t)
    \/ \E t \in LoopThreads : LoopScan(t)
    \/ \E t \in LoopThreads : LoopWake(t)

\* a started thread keeps being scheduled, and every sleep ends
SpecLoop == Init /\ [][NextLoop]_vars /\ \A t \in LoopThreads : WF_vars(LoopStep(t))

\* C17: at most one scan-loop thread exists at any time, whatever the
\* interleaving of start() and stop().
C17_AtMostOneLoop == Cardinality({t \in LoopThreads : Live(t)}) <= 1

\* C18: stop() on a scanner that is not running changes nothing; on a running
\* scanner it clears the flag, no loop begins a scan iteration while the flag
\* is clear, and unless the flag is set again every loop eventually exits.
C18_StopEndsTheLoop ==
    /\ [][/\ (last'.op = "stop" /\ last' # last /\ ~last'.ret)
             => UNCHANGED <<is_running, scan_thread, loops, callers, opportunities>>
          /\ \A c \in Callers :
                (callers[c].pc = "stop_clear" /\ callers'[c].pc # "stop_clear")
                => ~is_running'
          /\ \A t \in LoopThreads :
                (loops[t] # "scanning" /\ loops'[t] = "scanning") => is_running]_vars
    /\ (~is_running) ~> (is_running \/ \A t \in LoopThreads : ~Live(t))

C18_Witness ==
    /\ last.op = "stop" /\ last.ret
    /\ ~is_running
    /\ \A c \in Callers : callers[c].pc = "idle"
    /\ loops[1] = "done"
    /\ \A t \in LoopThreads : ~Live(t)

\* ------------------------------------------------------------------------
\* Order of the entries get_opportunities returns (checked under SpecHistory)
\* ------------------------------------------------------------------------
\* C21: get_opportunities returns its entries most-recent-first: the first
\* element of the result is the opportunity stored last.
C21_MostRecentFirst ==
    [][(result' # result /\ result'.entries # << >>)
       => /\ result'.entries[1] = opportunities[Len(opportunities)]
          /\ \A i \in 1..(Len(result'.entries) - 1) :
                result'.entries[i].oid > result'.entries[i + 1].oid]_vars

\* ------------------------------------------------------------------------
\* What the queries of an engine read (checked under Spec)
\* ------------------------------------------------------------------------
\* the attributes ExecutionEngine.__init__ gives an engine
EngineAttributes ==
    {"config", "logger", "network", "avocado", "pending_approvals", "execution_history"}

\* get_pending_approvals: approval records the comprehension visits
get_pending_approvals_reads(pa) == Len(pa)

\* get_stats: execution records its two generator expressions visit
get_stats_reads(hist) == Len(hist) + Len(hist)

\* C22: the engine keeps an index of pending ids that, after every
\* submit_for_approval, approve_transaction and reject_transaction, is the set
\* of ids whose record is pending, and get_pending_approvals is answered from
\* that index: it visits the pending records only.
C22_PendingIndexKept ==
    \A n \in EngineNetworks :
        (/\ last.op \in {"submit_for_approval", "approve_transaction", "reject_transaction"}
         /\ last.network = n)
        => /\ "_pending_ids" \in EngineAttributes
           /\ get_pending_approvals_reads(pending_approvals[n])
                 = Cardinality(PendingIds(pending_approvals[n]))

\* C23: get_stats reads counters kept up to date at each record transition
\* and never iterates the execution history, whatever its length.
C23_StatsNeverIterateHistory ==
    \A n \in EngineNetworks :
        Len(execution_history[n]) > 0
        => /\ "_stats_counters" \in EngineAttributes
           /\ get_stats_reads(execution_history[n]) = 0

\* ------------------------------------------------------------------------
\* Concurrent decisions on one approval (checked under SpecConc)
\* ------------------------------------------------------------------------
\* C27: of the approve_transaction and reject_transaction calls made on one
\* pending id, exactly one takes effect: the opportunity is executed at most
\* once, never when the record ends rejected, and always when it ends approved
\* with a batch that can be prepared.
C27_OneDecisionTakesEffect ==
    \A n \in EngineNetworks : \A i \in 1..Len(pending_approvals[n]) :
        LET rec == pending_approvals[n][i]
            k == ExecCount(execution_history[n], rec.opportunity.oid)
        IN /\ k <= 1
           /\ rec.status = "rejected" => k = 0
           /\ k = 1 => rec.status = "approved"

\* ------------------------------------------------------------------------
\* Updates of the policy (checked under SpecConfig)
\* ------------------------------------------------------------------------
\* the keys for which hasattr(config, key) holds
PolicyFields == ConfigKeys \ {"not_a_field"}

\* C26: update_config with a key that is not a policy field leaves the policy
\* unchanged and gives its caller an explicit failure result, not the result
\* of an accepted update.
C26_InvalidUpdateFails ==
    [][(last'.op = "update_config" /\ last'.key \notin PolicyFields)
       => /\ config' = config
          /\ last'.returned # NoneValue]_vars

\* ------------------------------------------------------------------------
\* The scanner's view of the approvals of all engines
\* ------------------------------------------------------------------------
\* approval["network"] = network on an entry of an engine's listing
Tagged(rec, n) ==
    [approval_id |-> rec.approval_id, opportunity |-> rec.opportunity,
     status |-> rec.status, network |-> n]

RECURSIVE AllPending(_, _)
AllPending(pa, k) ==
    IF k > Len(NetworkOrder) THEN << >>
    ELSE LET n == NetworkOrder[k]
             listing == get_pending_approvals(pa[n])
         IN [i \in 1..Len(listing) |-> Tagged(listing[i], n)] \o AllPending(pa, k + 1)

scanner_get_pending_approvals_tags_stored(pa) ==
    [entries |-> AllPending(pa, 1),
     approvals |-> [n \in EngineNetworks |->
                      [i \in 1..Len(pa[n]) |->
                          IF pa[n][i].status = "pending" THEN Tagged(pa[n][i], n)
                          ELSE pa[n][i]]]]

\* AutonomousScanner.get_pending_approvals: the entries it returns and the
\* approval records of the engines after the call (the engines hand out
\* copies of their records, so tagging a copy leaves the record as it was)
scanner_get_pending_approvals(pa) ==
    [entries |-> AllPending(pa, 1), approvals |-> pa]

\* a call get_pending_approvals() of the scanner and the list it returned
ListingCall(entries) ==
    [op |-> "get_pending_approvals", network |-> "none", id |-> NoId, opp |-> NoOpp,
     ret |-> FALSE, reason |-> "", entries |-> entries]

\* AutonomousScanner.get_pending_approvals()
GetPendingApprovals ==
    /\ LET r == scanner_get_pending_approvals(pending_approvals)
       IN /\ last' = ListingCall(r.entries)
          /\ pending_approvals' = r.approvals
    /\ UNCHANGED <<config, avocado, execution_history, now, nextOid>>
    /\ UNCHANGED scanVars

\* the opportunity submitted while the listing is observed
ListedOpportunities == OpportunitiesOf({100}, {50}, {<<"0xa", "0xB">>}, {"ok"})

NextApprovals ==
    \/ \E n \in EngineNetworks, opp \in ListedOpportunities : SubmitForApproval(n, opp)
    \/ \E network \in CallerNetworks : \E id \in CallerIds(network) :
          ApproveTransaction(network, id)
    \/ \E network \in CallerNetworks : \E id \in CallerIds(network) :
          RejectTransaction(network, id)
    \/ GetPendingApprovals

SpecApprovals == Init /\ [][NextApprovals]_vars

\* entry e of the aggregated listing is a pending record of the engine it names
OwnedEntry(e) ==
    /\ e.network \in EngineNetworks
    /\ \E i \in 1..Len(pending_approvals[e.network]) :
          LET rec == pending_approvals[e.network][i] IN
          /\ rec.approval_id = e.approval_id
          /\ rec.opportunity = e.opportunity
          /\ rec.status = "pending"

\* C24: every entry of the aggregated listing carries the network of the
\* engine that owns it; approve_transaction and reject_transaction with that
\* network and id change only that engine's record with that id and leave the
\* records, histories and statistics of the other engines as they were; the
\* listing itself changes no stored approval record.
C24_ApprovalsBelongToTheirEngine ==
    [][/\ last'.op = "get_pending_approvals"
          => /\ UNCHANGED <<pending_approvals, execution_history>>
             /\ \A j \in 1..Len(last'.entries) : OwnedEntry(last'.entries[j])
             /\ \A n \in EngineNetworks : \A i \in 1..Len(pending_approvals[n]) :
                   pending_approvals[n][i].status = "pending"
                   => \E j \in 1..Len(last'.entries) :
                         last'.entries[j] = Tagged(pending_approvals[n][i], n)
       /\ \A n \in EngineNetworks :
             (last'.op \in {"approve_transaction", "reject_transaction"}
              /\ last'.network = n)
             => /\ \A m \in EngineNetworks \ {n} :
                      /\ pending_approvals'[m] = pending_approvals[m]
                      /\ execution_history'[m] = execution_history[m]
                      /\ get_stats(pending_approvals'[m], execution_history'[m])
                            = get_stats(pending_approvals[m], execution_history[m])
                /\ Len(pending_approvals'[n]) = Len(pending_approvals[n])
                /\ \A i \in 1..Len(pending_approvals[n]) :
                      pending_approvals[n][i].approval_id # last'.id
                      => pending_approvals'[n][i] = pending_approvals[n][i]]_vars

C24_Witness ==
    /\ last.op = "get_pending_approvals"
    /\ Len(last.entries) = 2
    /\ last.entries[1].network = "ethereum"
    /\ last.entries[2].network = "polygon"
    /\ last.entries[1].approval_id = last.entries[2].approval_id
    /\ \A n \in EngineNetworks :
          Len(pending_approvals[n]) = 1 /\ pending_approvals[n][1].status = "pending"

\* ------------------------------------------------------------------------
\* One scan iteration, statement by statement
\* ------------------------------------------------------------------------
on_loop_error_no_backoff(st) ==
    [stats |-> [st EXCEPT !.errors = @ + 1], sleep |-> 0]

\* _scan_loop, except Exception: self.stats["errors"] += 1; time.sleep(10)
on_loop_error(st) ==
    [stats |-> [st EXCEPT !.errors = @ + 1], sleep |-> error_backoff_seconds]

after_pair_failure_leaves_network(c, outcome) ==
    IF outcome = "raises"
    THEN [c EXCEPT !.phase = "network", !.net = @ + 1,
                   !.raised = @ \cup {<<c.net, c.pair>>}]
    ELSE [c EXCEPT !.phase = "pair", !.pair = @ + 1]

\* _scan_network: the body of the pair loop has run on the pair the cursor is
\* at, to its end or into its except clause; the for statement goes on
after_pair(c, outcome) ==
    [c EXCEPT !.phase = "pair", !.pair = @ + 1,
              !.raised = IF outcome = "raises" THEN @ \cup {<<c.net, c.pair>>} ELSE @]

\* what the calls made inside an iteration can do
CallOutcomes == {"ok", "raises"}

\* _scan_loop enters try: _perform_scan() begins, or an exception escapes it
\* and the handler at the top of the loop runs
ScanBegin(t, outcome) ==
    /\ loops[t] = "scanning"
    /\ cursor[t].phase = "idle"
    /\ IF outcome = "ok"
       THEN /\ cursor' = [cursor EXCEPT ![t] =
                            [IdleCursor EXCEPT !.phase = "network", !.net = 1,
                                               !.slept = cursor[t].slept]]
            /\ UNCHANGED <<stats, loops>>
       ELSE /\ stats.errors < MaxErrors
            /\ stats' = on_loop_error(stats).stats
            /\ cursor' = [cursor EXCEPT ![t].slept = on_loop_error(stats).sleep]
            /\ loops' = [loops EXCEPT ![t] = "sleeping"]
    /\ UNCHANGED engineVars
    /\ UNCHANGED <<agents, connector, executor>>
    /\ UNCHANGED <<opportunities, result, is_running, scan_thread, callers, inflight>>

\* _perform_scan: self._scan_network(network) is called for the next network;
\* it reaches its pair loop, or raises before it and _perform_scan counts the error
NetworkBegin(t, outcome) ==
    /\ loops[t] = "scanning"
    /\ cursor[t].phase = "network"
    /\ cursor[t].net <= Len(NetworkOrder)
    /\ IF NetworkOrder[cursor[t].net] \notin agents
       THEN \* agent = self.agents.get(network); if not agent: return
            /\ outcome = "ok"
            /\ cursor' = [cursor EXCEPT ![t].net = @ + 1,
                                        ![t].nets = @ \cup {cursor[t].net}]
            /\ UNCHANGED stats
       ELSE IF outcome = "ok"
       THEN /\ cursor' = [cursor EXCEPT ![t].phase = "pair", ![t].pair = 1,
                                        ![t].nets = @ \cup {cursor[t].net}]
            /\ UNCHANGED stats
       ELSE /\ stats.errors < MaxErrors
            /\ stats' = [stats EXCEPT !.errors = @ + 1]
            /\ cursor' = [cursor EXCEPT ![t].net = @ + 1,
                                        ![t].nets = @ \cup {cursor[t].net},
                                        ![t].failed = @ \cup {cursor[t].net}]
    /\ UNCHANGED engineVars
    /\ UNCHANGED <<opportunities, result, is_running, scan_thread, loops, callers, inflight>>
    /\ UNCHANGED <<agents, connector, executor>>

\* _scan_network: the pair loop takes the next pair; a pair with a blacklisted
\* token is skipped, for any other the agent is asked
PairBegin(t) ==
    /\ loops[t] = "scanning"
    /\ cursor[t].phase = "pair"
    /\ cursor[t].pair <= Len(MonitoredPairs)
    /\ cursor' = [cursor EXCEPT
                    ![t].seen = @ \cup {<<cursor[t].net, cursor[t].pair>>},
                    ![t].asked = IF PairBlacklisted(config, MonitoredPairs[cursor[t].pair])
                                 THEN @ ELSE Append(@, <<cursor[t].net, cursor[t].pair>>),
                    ![t].phase = IF PairBlacklisted(config, MonitoredPairs[cursor[t].pair])
                                 THEN "pair" ELSE "inflight",
                    ![t].pair = IF PairBlacklisted(config, MonitoredPairs[cursor[t].pair])
                                THEN @ + 1 ELSE @]
    /\ UNCHANGED engineVars
    /\ UNCHANGED <<opportunities, result, is_running, scan_thread, loops, callers, inflight>>
    /\ UNCHANGED <<stats, agents, connector, executor>>

\* _scan_network: the agent answers that the pair offers nothing, or the body
\* of the pair loop raises and its except clause logs the error
PairEnd(t, outcome) ==
    /\ loops[t] = "scanning"
    /\ cursor[t].phase = "inflight"
    /\ cursor' = [cursor EXCEPT ![t] = after_pair(cursor[t], outcome)]
    /\ UNCHANGED engineVars
    /\ UNCHANGED <<opportunities, result, is_running, scan_thread, loops, callers, inflight>>
    /\ UNCHANGED <<stats, agents, connector, executor>>

\* _scan_network returns after the last pair
NetworkEnd(t) ==
    /\ loops[t] = "scanning"
    /\ cursor[t].phase = "pair"
    /\ cursor[t].pair > Len(MonitoredPairs)
    /\ cursor' = [cursor EXCEPT ![t].phase = "network", ![t].net = @ + 1]
    /\ UNCHANGED engineVars
    /\ UNCHANGED <<opportunities, result, is_running, scan_thread, loops, callers, inflight>>
    /\ UNCHANGED <<stats, agents, connector, executor>>

\* _perform_scan returns after the last network; the loop sleeps for
\* self.config.scan_interval_seconds
ScanEnd(t) ==
    /\ loops[t] = "scanning"
    /\ cursor[t].phase = "network"
    /\ cursor[t].net > Len(NetworkOrder)
    /\ cursor' = [cursor EXCEPT ![t].phase = "idle",
                                ![t].slept = config.scan_interval_seconds]
    /\ loops' = [loops EXCEPT ![t] = "sleeping"]
    /\ UNCHANGED engineVars
    /\ UNCHANGED <<opportunities, result, is_running, scan_thread, callers, inflight>>
    /\ UNCHANGED <<stats, agents, connector, executor>>

\* the thread that calls start() once and stop() afterwards
ScanCallers == {"c1"}

NextScan ==
    \/ \E c \in ScanCallers : scan_thread = 0 /\ StartCheck(c)
    \/ \E c \in ScanCallers : StartSet(c)
    \/ \E c \in ScanCallers : StartSpawn(c)
    \/ \E c \in ScanCallers : StopCheck(c)
    \/ \E c \in ScanCallers : StopClear(c)
    \/ \E c \in ScanCallers : JoinReturns(c)
    \/ \E c \in ScanCallers : JoinTimesOut(c)
    \/ \E t \in LoopThreads : LoopTest(t)
    \/ \E t \in LoopThreads : LoopWake(t)
    \/ \E t \in LoopThreads, outcome \in CallOutcomes : ScanBegin(t, outcome)
    \/ \E t \in LoopThreads, outcome \in CallOutcomes : NetworkBegin(t, outcome)
    \/ \E t \in LoopThreads : PairBegin(t)
    \/ \E t \in LoopThreads, outcome \in CallOutcomes : PairEnd(t, outcome)
    \/ \E t \in LoopThreads : NetworkEnd(t)
    \/ \E t \in LoopThreads : ScanEnd(t)

SpecScan == Init /\ [][NextScan]_vars

\* thread t enters a network or reaches a pair in this step
BeginsNetwork(t) == cursor'[t].nets # cursor[t].nets /\ cursor'[t].nets # {}

BeginsPair(t) == cursor'[t].seen # cursor[t].seen /\ cursor'[t].seen # {}

\* thread t leaves its scan iteration in this step: through the end of
\* _perform_scan, or through the handler at the top of the loop
CompletesScan(t) ==
    loops[t] = "scanning" /\ loops'[t] = "sleeping" /\ cursor[t].phase # "idle"

EscapesScan(t) ==
    loops[t] = "scanning" /\ loops'[t] = "sleeping" /\ cursor[t].phase = "idle"

\* C28: once the stop signal has been given during a scan iteration, the loop
\* starts no further network scan and no further pair scan in that iteration.
C28_NoNewScanAfterStop ==
    [][\A t \in LoopThreads : (BeginsNetwork(t) \/ BeginsPair(t)) => is_running]_vars

\* C29: within one iteration a failing pair or network never keeps the
\* remaining pairs of that network and the remaining networks from being
\* scanned, and never ends the loop.
C29_FailuresDoNotAbortTheScan ==
    [][\A t \in LoopThreads :
          /\ (loops[t] = "scanning" /\ loops'[t] # "scanning") => loops'[t] = "sleeping"
          /\ (cursor'[t].raised # cursor[t].raised /\ cursor'[t].raised # {})
             => /\ loops'[t] = "scanning"
                /\ cursor'[t].phase = "pair"
                /\ cursor'[t].net = cursor[t].net
                /\ cursor'[t].pair = cursor[t].pair + 1
          /\ (cursor'[t].failed # cursor[t].failed /\ cursor'[t].failed # {})
             => /\ loops'[t] = "scanning"
                /\ cursor'[t].phase = "network"
                /\ cursor'[t].net = cursor[t].net + 1
          /\ CompletesScan(t)
             => /\ cursor'[t].nets = NetworkPositions
                /\ \A n \in NetworkPositions \ cursor'[t].failed :
                      \A p \in PairPositions : <<n, p>> \in cursor'[t].seen]_vars

C29_Witness ==
    /\ loops[1] = "sleeping"
    /\ cursor[1].failed = {1}
    /\ <<2, 1>> \in cursor[1].raised
    /\ <<2, 2>> \in cursor[1].seen
    /\ cursor[1].slept = config.scan_interval_seconds

\* C30: while the running flag is true the loop does not end; an exception
\* that escapes a scan iteration adds exactly one to the error counter and is
\* followed by the fixed back-off sleep, and an iteration begins only after a
\* sleep has ended and the flag has been tested.
C30_LoopErrorsAreCountedAndBackedOff ==
    [][\A t \in LoopThreads :
          /\ (loops[t] # "done" /\ loops'[t] = "done") => ~is_running
          /\ EscapesScan(t)
             => /\ stats'.errors = stats.errors + 1
                /\ cursor'[t].slept = error_backoff_seconds
          /\ (loops[t] # "scanning" /\ loops'[t] = "scanning") => loops[t] = "test"
          /\ (loops[t] = "sleeping" /\ loops'[t] # "sleeping") => loops'[t] = "test"]_vars

C30_Witness ==
    /\ is_running
    /\ loops[1] = "sleeping"
    /\ cursor[1].slept = error_backoff_seconds
    /\ cursor[1].nets = {}
    /\ stats.errors = 1

\* ------------------------------------------------------------------------
\* The policy changed while the loop runs and the engines decide
\* ------------------------------------------------------------------------
\* the policy fields changed at run time
PolicyKeys == {"min_profit_usd", "scan_interval_seconds", "blacklisted_addresses"}

\* the opportunity the engines are asked about: its profit is the default minimum
PolicyOpportunities == OpportunitiesOf({50}, {50}, {<<"0xa", "0xB">>}, {"ok"})

NextPolicy ==
    \/ \E key \in PolicyKeys : \E value \in ConfigValues(key) : UpdateConfig(key, value)
    \/ \E n \in EngineNetworks, opp \in PolicyOpportunities : CanExecute(n, opp)
    \/ \E c \in ScanCallers : scan_thread = 0 /\ StartCheck(c)
    \/ \E c \in ScanCallers : StartSet(c)
    \/ \E c \in ScanCallers : StartSpawn(c)
    \/ \E t \in LoopThreads : LoopTest(t)
    \/ \E t \in LoopThreads : LoopWake(t)
    \/ \E t \in LoopThreads : ScanBegin(t, "ok")
    \/ \E t \in LoopThreads : NetworkBegin(t, "ok")
    \/ \E t \in LoopThreads : PairBegin(t)
    \/ \E t \in LoopThreads : PairEnd(t, "ok")
    \/ \E t \in LoopThreads : NetworkEnd(t)
    \/ \E t \in LoopThreads : ScanEnd(t)

SpecPolicy == Init /\ [][NextPolicy]_vars

\* field f is not the one an update of key sets (the lower-case set is kept
\* together with the blacklist)
OtherField(f, key) ==
    f # key /\ ~(key = "blacklisted_addresses" /\ f = "blacklisted_set")

\* C25: after update_config(k=v) for a policy field the policy holds v for k
\* and its other fields are as before; every can_execute decision of every
\* engine, every blacklist test of the scan loop and every sleep of the loop
\* uses the values the policy holds at that moment, also while the loop runs.
C25_UpdateTakesEffect ==
    [][/\ (last'.op = "update_config" /\ last'.key \in PolicyFields)
          => /\ config'[last'.key] = last'.value
             /\ \A f \in DOMAIN config : OtherField(f, last'.key) => config'[f] = config[f]
       /\ last'.op = "can_execute"
          => (last'.ret <=> /\ ~ProfitTooLow(last'.opp)
                            /\ ~GasTooHigh(last'.opp)
                            /\ ~PairListed(last'.opp)
                            /\ ~NoBackend(last'.network))
       /\ \A t \in LoopThreads :
             /\ BeginsPair(t)
                => (cursor'[t].phase = "inflight"
                    <=> \A i \in 1..Len(MonitoredPairs[cursor[t].pair]) :
                           ~Listed(MonitoredPairs[cursor[t].pair][i]))
             /\ CompletesScan(t) => cursor'[t].slept = config.scan_interval_seconds]_vars

C25_Witness ==
    /\ last.op = "update_config"
    /\ last.key = "scan_interval_seconds"
    /\ last.value = 30
    /\ is_running
    /\ loops[1] = "sleeping"
    /\ cursor[1].slept = 30
    /\ config.min_profit_usd = 100
    /\ config.blacklisted_addresses = <<"0xA">>
    /\ <<1, 2>> \in cursor[1].seen

\* ------------------------------------------------------------------------
\* Failures of scanning work and the error counter (checked under SpecScan)
\* ------------------------------------------------------------------------
\* thread t sees a network scan fail, or a pair scan fail, in this step
NetworkFails(t) == cursor'[t].failed # cursor[t].failed /\ cursor'[t].failed # {}

PairFails(t) == cursor'[t].raised # cursor[t].raised /\ cursor'[t].raised # {}

\* C31: every network scan that fails and every pair scan that fails adds
\* one to the error counter of the scanner.
C31_EveryFailureCounted ==
    [][\A t \in LoopThreads :
          (NetworkFails(t) \/ PairFails(t)) => stats'.errors = stats.errors + 1]_vars

\* ------------------------------------------------------------------------
\* The scan loop finds opportunities and hands them to the engines
\* ------------------------------------------------------------------------
\* agent.py: profitable = net_profit > 50
profit_threshold == 50

\* opportunity["network"], opportunity["discovered_at"] before the scanner sets them
NoNetwork == "none"
NoTime == -1

\* net profits the Opportunity Source computes for a pair
SourceProfits == {50, 100}

\* VibeAgent.analyze_arbitrage_opportunity: the opportunity for a pair whose
\* net profit is net_profit; it carries no strategy and no gas price
analyze_arbitrage_opportunity(pair, net_profit) ==
    [estimated_profit_usd |-> net_profit, gas_price_gwei |-> NoGas, token_pair |-> pair,
     strategy |-> "none", oid |-> NoOid, profitable |-> net_profit > profit_threshold,
     network |-> NoNetwork, discovered_at |-> NoTime]

\* VibeAgent.generate_strategy_with_ai: the template strategy is attached
generate_strategy_with_ai(opp) == [opp EXCEPT !.strategy = "ok"]

tag_opportunity_resets_profit(opp, network, t) ==
    [opp EXCEPT !.network = network, !.discovered_at = t, !.estimated_profit_usd = 0]

\* opportunity["network"] = network; opportunity["discovered_at"] = now
tag_opportunity(opp, network, t) ==
    [opp EXCEPT !.network = network, !.discovered_at = t]

\* _scan_network, from the answer of the source to _store_opportunity
found_opportunity(cfg, st, dq, opp, network, t) ==
    IF ~opp.profitable
    THEN [stats |-> st, opportunities |-> dq, opp |-> opp, found |-> FALSE]
    ELSE LET planned == IF ~cfg.autonomous_mode THEN generate_strategy_with_ai(opp)
                        ELSE opp
             tagged == tag_opportunity(planned, network, t)
         IN [stats |-> [st EXCEPT !.opportunities_found = @ + 1],
             opportunities |-> store_opportunity(dq, tagged),
             opp |-> tagged,
             found |-> TRUE]

hand_to_gate_in_every_mode(cfg, st, pa, hist, hasAvocado, n, opp, t) ==
    LET r == execute_opportunity(cfg, pa, hist, hasAvocado, n, opp, t)
    IN [stats |-> IF r.ret
                  THEN [st EXCEPT !.opportunities_executed = @ + 1,
                                  !.total_profit_usd = @ + opp.estimated_profit_usd]
                  ELSE st,
        approvals |-> r.approvals, history |-> r.history, called |-> TRUE,
        ret |-> r.ret, id |-> r.id, reason |-> r.reason]

\* _scan_network, if self.config.autonomous_mode: execute_opportunity and the
\* counters of the scanner
hand_to_gate(cfg, st, pa, hist, hasAvocado, n, opp, t) ==
    IF ~cfg.autonomous_mode
    THEN [stats |-> st, approvals |-> pa, history |-> hist, called |-> FALSE,
          ret |-> FALSE, id |-> NoId, reason |-> ""]
    ELSE LET r == execute_opportunity(cfg, pa, hist, hasAvocado, n, opp, t)
         IN [stats |-> IF r.ret
                       THEN [st EXCEPT !.opportunities_executed = @ + 1,
                                       !.total_profit_usd = @ + opp.estimated_profit_usd]
                       ELSE st,
             approvals |-> r.approvals, history |-> r.history, called |-> TRUE,
             ret |-> r.ret, id |-> r.id, reason |-> r.reason]

\* _scan_network: the source answers for the pair the cursor is at; a
\* profitable opportunity is counted, given its strategy and tags, and stored
PairAnswer(t, net_profit) ==
    /\ loops[t] = "scanning"
    /\ cursor[t].phase = "inflight"
    /\ LET answer == analyze_arbitrage_opportunity(MonitoredPairs[cursor[t].pair],
                                                   net_profit)
           r == found_opportunity(config, stats, opportunities,
                                  [answer EXCEPT !.oid = nextOid],
                                  NetworkOrder[cursor[t].net], now)
       IN /\ r.found => nextOid < MaxOpps
          /\ stats' = r.stats
          /\ opportunities' = r.opportunities
          /\ nextOid' = IF r.found THEN nextOid + 1 ELSE nextOid
          /\ cursor' = [cursor EXCEPT ![t] =
                          IF r.found THEN [cursor[t] EXCEPT !.phase = "found", !.opp = r.opp]
                          ELSE after_pair([cursor[t] EXCEPT !.opp = answer], "ok")]
    /\ UNCHANGED <<config, avocado, pending_approvals, execution_history, now, last>>
    /\ UNCHANGED <<result, is_running, scan_thread, loops, callers, inflight, agents, connector, executor>>

\* _scan_network: the test of autonomous_mode after the opportunity is stored,
\* and execute_opportunity on the engine of the network
PairHandOff(t) ==
    /\ loops[t] = "scanning"
    /\ cursor[t].phase = "found"
    /\ LET n == NetworkOrder[cursor[t].net]
           r == hand_to_gate(config, stats, pending_approvals[n], execution_history[n],
                             avocado[n], n, cursor[t].opp, now)
       IN /\ Len(execution_history[n]) < MaxHistory
          /\ stats' = r.stats
          /\ pending_approvals' = [pending_approvals EXCEPT ![n] = r.approvals]
          /\ execution_history' = [execution_history EXCEPT ![n] = r.history]
          /\ last' = IF r.called
                     THEN Call("execute_opportunity", n, r.id, cursor[t].opp, r.ret, r.reason)
                     ELSE last
    /\ cursor' = [cursor EXCEPT ![t] = after_pair(cursor[t], "ok")]
    /\ UNCHANGED <<config, avocado, now, nextOid>>
    /\ UNCHANGED <<opportunities, result, is_running, scan_thread, loops, callers,
                   inflight, agents, connector, executor>>

\* the policy fields changed while the loop finds opportunities
AutoKeys == {"autonomous_mode", "require_manual_approval"}

\* the networks an agent can be built for: all, or all but the last
AgentSets == {EngineNetworks, {"ethereum"}}

InitAuto == \E built \in AgentSets : Constructed(built)

\* the loop thread is followed through its first iteration, up to its sleep
NextAuto ==
    \/ \E key \in AutoKeys : \E value \in ConfigValues(key) : UpdateConfig(key, value)
    \/ \E c \in ScanCallers : scan_thread = 0 /\ StartCheck(c)
    \/ \E c \in ScanCallers : StartSet(c)
    \/ \E c \in ScanCallers : StartSpawn(c)
    \/ \E t \in LoopThreads : LoopTest(t)
    \/ \E t \in LoopThreads : ScanBegin(t, "ok")
    \/ \E t \in LoopThreads : NetworkBegin(t, "ok")
    \/ \E t \in LoopThreads : PairBegin(t)
    \/ \E t \in LoopThreads, net_profit \in SourceProfits : PairAnswer(t, net_profit)
    \/ \E t \in LoopThreads : PairHandOff(t)
    \/ \E t \in LoopThreads : NetworkEnd(t)
    \/ \E t \in LoopThreads : ScanEnd(t)

SpecAuto == InitAuto /\ [][NextAuto]_vars

\* thread t receives the answer of the source, or passes the test of
\* autonomous_mode that follows the storing, in this step
AnswersPair(t) ==
    /\ cursor[t].phase = "inflight"
    /\ cursor'[t].phase # "inflight"
    /\ cursor'[t].raised = cursor[t].raised

HandsOff(t) == cursor[t].phase = "found" /\ cursor'[t].phase # "found"

EngineRecordsSame ==
    pending_approvals' = pending_approvals /\ execution_history' = execution_history

\* C33: the scan loop calls the engine only for an opportunity marked
\* profitable and only when autonomous mode is on at the test; with the mode
\* off a profitable opportunity is stored and counted as found, no approval
\* record and no execution record is made and the executed and profit counters
\* stay; an opportunity not marked profitable is neither stored nor counted.
C33_GateOnlyInAutonomousMode ==
    [][\A t \in LoopThreads :
          /\ AnswersPair(t)
             => /\ EngineRecordsSame
                /\ last' = last
                /\ stats'.opportunities_executed = stats.opportunities_executed
                /\ stats'.total_profit_usd = stats.total_profit_usd
                /\ cursor'[t].opp.profitable <=> cursor'[t].phase = "found"
                /\ IF cursor'[t].opp.profitable
                   THEN /\ opportunities' # << >>
                        /\ opportunities'[Len(opportunities')] = cursor'[t].opp
                        /\ SubSeq(opportunities', 1, Len(opportunities') - 1) = opportunities
                        /\ stats'.opportunities_found = stats.opportunities_found + 1
                   ELSE /\ opportunities' = opportunities
                        /\ stats' = stats
          /\ HandsOff(t)
             => /\ opportunities' = opportunities
                /\ stats'.opportunities_found = stats.opportunities_found
                /\ IF config.autonomous_mode
                   THEN /\ cursor[t].opp.profitable
                        /\ last'.op = "execute_opportunity"
                        /\ last'.opp = cursor[t].opp
                        /\ last'.network = NetworkOrder[cursor[t].net]
                   ELSE /\ EngineRecordsSame
                        /\ last' = last
                        /\ stats' = stats]_vars

C33_Witness ==
    /\ ~config.autonomous_mode
    /\ cursor[1].phase = "pair"
    /\ cursor[1].net = 1
    /\ cursor[1].pair = 2
    /\ cursor[1].opp.profitable
    /\ cursor[1].opp.strategy = "ok"
    /\ opportunities = <<cursor[1].opp>>
    /\ stats.opportunities_found = 1
    /\ stats.opportunities_executed = 0
    /\ stats.total_profit_usd = 0
    /\ \A n \in EngineNetworks : pending_approvals[n] = << >> /\ execution_history[n] = << >>

\* C34: with autonomous mode on and manual approval off, a profitable
\* opportunity the loop found that passes can_execute is executed at once: a
\* success record with its estimated profit is appended and the executed and
\* profit counters of the scanner advance by one and by that profit.
C34_FoundIsExecutedAtOnce ==
    [][\A t \in LoopThreads :
          LET n == NetworkOrder[cursor[t].net]
              opp == cursor[t].opp
              h == execution_history'[n]
          IN (/\ HandsOff(t)
              /\ config.autonomous_mode
              /\ ~config.require_manual_approval
              /\ can_execute(config, avocado[n], opp).ok)
             => /\ Len(h) = Len(execution_history[n]) + 1
                /\ h[Len(h)].opportunity = opp
                /\ h[Len(h)].status = "success"
                /\ h[Len(h)].actual_profit_usd = opp.estimated_profit_usd
                /\ stats'.opportunities_executed = stats.opportunities_executed + 1
                /\ stats'.total_profit_usd
                      = stats.total_profit_usd + opp.estimated_profit_usd]_vars

\* C36: the executed and profit counters of the scanner never exceed the
\* success records and the profit the engines report: an opportunity that is
\* only queued for approval contributes to neither.
C36_CountersOnlyForExecuted ==
    /\ stats.opportunities_executed
          <= get_stats(pending_approvals["ethereum"], execution_history["ethereum"]).successful
             + get_stats(pending_approvals["polygon"], execution_history["polygon"]).successful
    /\ stats.total_profit_usd
          <= get_stats(pending_approvals["ethereum"],
                       execution_history["ethereum"]).total_profit_usd
             + get_stats(pending_approvals["polygon"],
                         execution_history["polygon"]).total_profit_usd

\* ------------------------------------------------------------------------
\* An opportunity on its way through the scanner and the engines
\* ------------------------------------------------------------------------
\* ExecutionEngine.can_execute on an opportunity the scanner has stored
CanExecuteStored(n) ==
    \E i \in 1..Len(opportunities) : CanExecute(n, opportunities[i])

\* the mode is changed while the loop runs; approvals are decided and the
\* stored opportunities are queried at any time
NextCustody ==
    \/ \E value \in BOOLEAN : UpdateConfig("autonomous_mode", value)
    \/ \E c \in ScanCallers : scan_thread = 0 /\ StartCheck(c)
    \/ \E c \in ScanCallers : StartSet(c)
    \/ \E c \in ScanCallers : StartSpawn(c)
    \/ \E t \in LoopThreads : LoopTest(t)
    \/ \E t \in LoopThreads : ScanBegin(t, "ok")
    \/ \E t \in LoopThreads : NetworkBegin(t, "ok")
    \/ \E t \in LoopThreads : PairBegin(t)
    \/ \E t \in LoopThreads, net_profit \in SourceProfits : PairAnswer(t, net_profit)
    \/ \E t \in LoopThreads : PairHandOff(t)
    \/ \E t \in LoopThreads : NetworkEnd(t)
    \/ \E t \in LoopThreads : ScanEnd(t)
    \/ \E network \in EngineNetworks : \E id \in Ids(pending_approvals[network]) :
          ApproveTransaction(network, id)
    \/ \E network \in EngineNetworks : \E id \in Ids(pending_approvals[network]) :
          RejectTransaction(network, id)
    \/ GetPendingApprovals
    \/ GetOpportunities(20)
    \/ \E n \in EngineNetworks : CanExecuteStored(n)

\* the scanner constructed where only ethereum has an RPC endpoint
InitCustody == Constructed({"ethereum"})

SpecCustody == InitCustody /\ [][NextCustody]_vars

\* the opportunities the scanner and the engines hold, in the given values of
\* the history, the approval records, the execution records and the cursors
Held(dq, pa, hist, cur) ==
    {dq[i] : i \in 1..Len(dq)}
    \cup UNION {{pa[n][i].opportunity : i \in 1..Len(pa[n])} : n \in EngineNetworks}
    \cup UNION {{hist[n][i].opportunity : i \in 1..Len(hist[n])} : n \in EngineNetworks}
    \cup {cur[t].opp : t \in {u \in LoopThreads : cur[u].phase = "found"}}

\* the fields of an opportunity other than its strategy and its two tags
SourceFields(o) ==
    [estimated_profit_usd |-> o.estimated_profit_usd, gas_price_gwei |-> o.gas_price_gwei,
     token_pair |-> o.token_pair, profitable |-> o.profitable, oid |-> o.oid]

\* C35: an opportunity taken from the source keeps the fields the source gave
\* it: the scanner attaches a strategy and the network and discovered_at tags
\* before it stores it, and from then on storing, can_execute, submitting,
\* approving, rejecting, executing and the queries leave every copy of it as
\* it is; what the queries return are the opportunities held.
C35_OpportunityKeepsItsFields ==
    [][/\ \A o \in Held(opportunities, pending_approvals, execution_history, cursor) :
             \A o2 \in Held(opportunities', pending_approvals', execution_history', cursor') :
                o2.oid = o.oid => o2 = o
       /\ \A t \in LoopThreads :
             (AnswersPair(t) /\ cursor'[t].phase = "found")
             => /\ \E net_profit \in SourceProfits :
                      SourceFields(cursor'[t].opp)
                         = SourceFields([analyze_arbitrage_opportunity(
                                             MonitoredPairs[cursor[t].pair], net_profit)
                                         EXCEPT !.oid = nextOid])
                /\ cursor'[t].opp.network = NetworkOrder[cursor[t].net]
                /\ cursor'[t].opp.discovered_at = now
                /\ cursor'[t].opp.strategy = IF config.autonomous_mode THEN "none" ELSE "ok"
       /\ last'.op = "get_pending_approvals"
             => \A i \in 1..Len(last'.entries) :
                   last'.entries[i].opportunity
                      \in Held(opportunities, pending_approvals, execution_history, cursor)
       /\ result' # result
             => \A i \in 1..Len(result'.entries) :
                   result'.entries[i]
                      \in Held(opportunities, pending_approvals, execution_history, cursor)]_vars

C35_Witness ==
    /\ Len(opportunities) = 1
    /\ Len(execution_history["ethereum"]) = 1
    /\ execution_history["ethereum"][1].opportunity = opportunities[1]
    /\ execution_history["ethereum"][1].status = "success"
    /\ Len(pending_approvals["ethereum"]) = 1
    /\ pending_approvals["ethereum"][1].opportunity = opportunities[1]
    /\ pending_approvals["ethereum"][1].status = "approved"
    /\ opportunities[1].strategy = "ok"
    /\ opportunities[1].network = "ethereum"
    /\ opportunities[1].estimated_profit_usd = 100
    /\ last.op = "get_pending_approvals"

\* ------------------------------------------------------------------------
\* The blacklist changed while the loop walks the pairs
\* ------------------------------------------------------------------------
NextSkip ==
    \/ \E value \in BlacklistValues : UpdateConfig("blacklisted_addresses", value)
    \/ \E c \in ScanCallers : scan_thread = 0 /\ StartCheck(c)
    \/ \E c \in ScanCallers : StartSet(c)
    \/ \E c \in ScanCallers : StartSpawn(c)
    \/ \E t \in LoopThreads : LoopTest(t)
    \/ \E t \in LoopThreads : LoopWake(t)
    \/ \E t \in LoopThreads : ScanBegin(t, "ok")
    \/ \E t \in LoopThreads : NetworkBegin(t, "ok")
    \/ \E t \in LoopThreads : PairBegin(t)
    \/ \E t \in LoopThreads, net_profit \in SourceProfits : PairAnswer(t, net_profit)
    \/ \E t \in LoopThreads : PairHandOff(t)
    \/ \E t \in LoopThreads : NetworkEnd(t)
    \/ \E t \in LoopThreads : ScanEnd(t)

SpecSkip == InitAuto /\ [][NextSkip]_vars

\* C32: in a scan iteration every pair of every network that has an agent is
\* reached once; the source is asked for it exactly when none of its tokens is
\* blacklisted at that moment, and never otherwise; a skipped pair changes
\* neither the history nor a counter nor an engine record.
C32_AskedOncePerAllowedPair ==
    [][\A t \in LoopThreads :
          LET here == <<cursor[t].net, cursor[t].pair>>
              done == cursor'[t].asked
          IN /\ BeginsPair(t)
                => /\ here \notin cursor[t].seen
                   /\ NetworkOrder[cursor[t].net] \in agents
                   /\ IF \E i \in 1..Len(MonitoredPairs[cursor[t].pair]) :
                            Listed(MonitoredPairs[cursor[t].pair][i])
                      THEN /\ done = cursor[t].asked
                           /\ cursor'[t].phase # "inflight"
                           /\ opportunities' = opportunities
                           /\ stats' = stats
                           /\ EngineRecordsSame
                      ELSE /\ done = Append(cursor[t].asked, here)
                           /\ cursor'[t].phase = "inflight"
             /\ (done # cursor[t].asked /\ done # << >>) => BeginsPair(t)
             /\ \A i, j \in 1..Len(done) : done[i] = done[j] => i = j
             /\ CompletesScan(t)
                => \A n \in NetworkPositions : \A p \in PairPositions :
                      /\ NetworkOrder[n] \in agents => <<n, p>> \in cursor[t].seen
                      /\ NetworkOrder[n] \notin agents
                            => \A i \in 1..Len(done) : done[i] # <<n, p>>]_vars

C32_Witness ==
    /\ loops[1] = "sleeping"
    /\ agents = {"ethereum"}
    /\ cursor[1].seen = {<<1, 1>>, <<1, 2>>}
    /\ cursor[1].asked = <<<<1, 2>>>>
    /\ cursor[1].slept = config.scan_interval_seconds
    /\ Len(opportunities) = 1
    /\ opportunities[1].token_pair = MonitoredPairs[2]
    /\ stats.opportunities_found = 1

\* ------------------------------------------------------------------------
\* The policy changed between submit_for_approval and approve_transaction
\* ------------------------------------------------------------------------
\* the policy fields the safety gate reads
GateKeys == {"min_profit_usd", "max_gas_price_gwei", "blacklisted_addresses"}

\* the opportunity handed to execute_opportunity: it passes the gate of the
\* initial policy
WaitingOpportunities == OpportunitiesOf({100}, {50}, {<<"0xa", "0xB">>}, {"ok"})

\* opportunities reach the approval queue through execute_opportunity, that
\* is, after they passed the gate
NextRecheck ==
    \/ \E key \in GateKeys : \E value \in ConfigValues(key) : UpdateConfig(key, value)
    \/ \E n \in EngineNetworks, opp \in WaitingOpportunities : ExecuteOpportunity(n, opp)
    \/ \E network \in EngineNetworks : \E id \in Ids(pending_approvals[network]) :
          ApproveTransaction(network, id)

SpecRecheck == Init /\ [][NextRecheck]_vars

\* C37: approve_transaction executes an opportunity only if it passes the
\* safety gate under the policy in force at that moment.
C37_GateHoldsAtExecution ==
    [][\A n \in EngineNetworks :
          (last'.op = "approve_transaction" /\ execution_history'[n] # execution_history[n])
          => LET h == execution_history'[n]
             IN can_execute(config, avocado[n], h[Len(h)].opportunity).ok]_vars

\* ------------------------------------------------------------------------
\* WalletConnector and AutonomousExecutor
\* ------------------------------------------------------------------------
\* addresses a caller passes to connect_wallet; "bad" is not an address
WalletAddresses == {"0xw1", "bad"}

\* Web3.to_checksum_address: whether it accepts the address (it raises on
\* one it does not), and what it returns
IsAddress(a) == a \in {"0xw1", "0xW1", "0xw2", "0xW2"}

to_checksum_address(a) ==
    CASE a = "0xw1" -> "0xW1"
      [] a = "0xw2" -> "0xW2"
      [] OTHER -> a

\* web3.eth.get_balance: it raises, or returns a balance in gwei
BalanceFails == -1
BalanceValues == {BalanceFails, 0, 100000000}

\* web3.eth.gas_price in gwei
GasPriceValues == {50, 150}

\* MAX_GAS_PRICE_GWEI as check_gas_balance reads it from the environment
max_gas_gwei == 100

\* opportunity.get("gas_estimate", 500000)
gas_estimate == 500000

connect_wallet_all_or_nothing(w, address, rpc, balance, t) ==
    IF ~IsAddress(address) \/ ~rpc \/ balance = BalanceFails
    THEN [connector |-> w, success |-> FALSE]
    ELSE [connector |-> [w EXCEPT !.wallet_address = to_checksum_address(address),
                                  !.connected = TRUE,
                                  !.connection_timestamp = t,
                                  !.session_address = to_checksum_address(address)],
          success |-> TRUE]

\* WalletConnector.connect_wallet(wallet_address); rpc is web3.is_connected()
connect_wallet(w, address, rpc, balance, t) ==
    IF ~IsAddress(address) THEN [connector |-> w, success |-> FALSE]
    ELSE IF ~rpc THEN [connector |-> w, success |-> FALSE]
    ELSE LET stored == [w EXCEPT !.wallet_address = to_checksum_address(address),
                                 !.connected = TRUE,
                                 !.connection_timestamp = t]
         IN IF balance = BalanceFails
            THEN [connector |-> stored, success |-> FALSE]
            ELSE [connector |-> [stored EXCEPT !.session_address = stored.wallet_address],
                  success |-> TRUE]

\* WalletConnector.disconnect_wallet()
disconnect_wallet(w) ==
    [w EXCEPT !.connected = FALSE, !.wallet_address = NoAddress,
              !.connection_timestamp = -1, !.session_address = NoAddress]

\* dict.get(key, default)
DictGet(d, key, default) == IF key \in DOMAIN d THEN d[key] ELSE default

\* WalletConnector.check_gas_balance(estimated_gas_units)
check_gas_balance(w, gas_price, balance, estimated_gas_units) ==
    IF ~w.connected \/ w.wallet_address = NoAddress
    THEN [sufficient |-> FALSE, error |-> "Wallet not connected"]
    ELSE IF balance = BalanceFails
    THEN [sufficient |-> FALSE, error |-> "raised"]
    ELSE LET \* in gwei, as the balance is
             gas_cost == gas_price * estimated_gas_units
             \* balance >= gas_cost * 1.2
             sufficient == 10 * balance >= 12 * gas_cost
             gas_price_acceptable == gas_price <= max_gas_gwei
         IN [sufficient |-> sufficient /\ gas_price_acceptable,
             gas_price_acceptable |-> gas_price_acceptable,
             current_gas_price_gwei |-> gas_price]

\* WalletConnector.validate_network(required_network)
validate_network(w, required_network) == Lower(w.network) = Lower(required_network)

\* strategy.get("slippage_tolerance", 0) in tenths of a percent: the template
\* strategy has 0.5, a strategy written by hand may have more
SlippageTenths(strategy) ==
    CASE strategy = "ok" -> 5
      [] strategy = "loose" -> 20
      [] OTHER -> 0

CheckNames == <<"min_profit", "wallet", "gas_balance", "gas_price", "network", "profitable">>

\* which of the six checks of validate_safety_checks fail
FailedChecks(ex, w, opp, gas_price, balance, agent_network) ==
    LET gas_check == check_gas_balance(w, gas_price, balance, gas_estimate)
    IN [k \in 1..Len(CheckNames) |->
          CASE k = 1 -> opp.estimated_profit_usd < ex.min_profit_usd
            [] k = 2 -> ~w.connected
            [] k = 3 -> ~DictGet(gas_check, "sufficient", FALSE)
            [] k = 4 -> ~DictGet(gas_check, "gas_price_acceptable", TRUE)
            [] k = 5 -> ~validate_network(w, agent_network)
            [] OTHER -> ~opp.profitable]

\* the names of the checks, in order, that did (or did not) fail
NamesWhere(fails, failed) ==
    LET sel == SelectSeq([k \in 1..Len(CheckNames) |-> k], LAMBDA k : fails[k] = failed)
    IN [i \in 1..Len(sel) |-> CheckNames[sel[i]]]

\* an opportunity whose strategy is None makes opportunity.get("strategy",
\* {}).get(...) raise: nothing is returned
NoValidation ==
    [raised |-> TRUE, passed |-> FALSE, checks |-> << >>, warnings |-> << >>,
     errors |-> << >>]

validate_safety_checks_warning_fails(ex, w, opp, gas_price, balance, agent_network) ==
    LET fails == FailedChecks(ex, w, opp, gas_price, balance, agent_network)
        warnings == IF SlippageTenths(opp.strategy) > 10 THEN <<"slippage">> ELSE << >>
    IN IF opp.strategy = "none" THEN NoValidation
       ELSE [raised |-> FALSE,
             passed |-> (\A k \in 1..Len(CheckNames) : ~fails[k]) /\ warnings = << >>,
             checks |-> NamesWhere(fails, FALSE),
             warnings |-> warnings,
             errors |-> NamesWhere(fails, TRUE)]

\* AutonomousExecutor.validate_safety_checks(opportunity)
validate_safety_checks(ex, w, opp, gas_price, balance, agent_network) ==
    LET fails == FailedChecks(ex, w, opp, gas_price, balance, agent_network)
        warnings == IF SlippageTenths(opp.strategy) > 10 THEN <<"slippage">> ELSE << >>
    IN IF opp.strategy = "none" THEN NoValidation
       ELSE [raised |-> FALSE,
             passed |-> \A k \in 1..Len(CheckNames) : ~fails[k],
             checks |-> NamesWhere(fails, FALSE),
             warnings |-> warnings,
             errors |-> NamesWhere(fails, TRUE)]

\* AutonomousExecutor.execute_arbitrage: the simulated execution succeeds
\* unless building it raises
execute_arbitrage(opp, outcome) == opp.strategy # "none" /\ outcome = "ok"

\* scan_and_execute_arbitrage, the body of its pair loop for one answer of
\* the source
scan_and_execute_pair(ex, w, answer, gas_price, balance, agent_network, outcome) ==
    LET opp == generate_strategy_with_ai(answer)
        validation == validate_safety_checks(ex, w, opp, gas_price, balance, agent_network)
        entry == [opportunity |-> opp, success |-> execute_arbitrage(opp, outcome)]
    IN IF ~validation.passed
       THEN [executor |-> ex, validation |-> validation, executed |-> FALSE]
       ELSE [executor |->
                IF entry.success
                THEN [ex EXCEPT !.executed_opportunities = Append(@, entry)]
                ELSE [ex EXCEPT !.failed_opportunities = Append(@, entry)],
             validation |-> validation,
             executed |-> TRUE]

\* a call of the executor and what it returned or did
ExecutorCall(op, opp, validation, executed) ==
    [op |-> op, network |-> "none", id |-> NoId, opp |-> opp, ret |-> executed,
     reason |-> "", validation |-> validation]

\* the opportunities validate_safety_checks is called on
ValidatedOpportunities ==
    {[analyze_arbitrage_opportunity(MonitoredPairs[1], p) EXCEPT !.strategy = st] :
        p \in {30} \cup SourceProfits, st \in {"none", "ok", "loose"}}

AgentNetworks == {"ethereum", "polygon"}

\* WalletConnector.connect_wallet(address)
ConnectWallet(address, rpc, balance) ==
    /\ LET r == connect_wallet(connector, address, rpc, balance, now)
       IN /\ connector' = r.connector
          /\ last' = Call("connect_wallet", "none", NoId, NoOpp, r.success, address)
    /\ UNCHANGED <<config, avocado, pending_approvals, execution_history, now, nextOid>>
    /\ UNCHANGED <<opportunities, result, is_running, scan_thread, loops, callers,
                   inflight, stats, cursor, agents, executor>>

\* WalletConnector.disconnect_wallet()
DisconnectWallet ==
    /\ connector' = disconnect_wallet(connector)
    /\ last' = Call("disconnect_wallet", "none", NoId, NoOpp, TRUE, "")
    /\ UNCHANGED <<config, avocado, pending_approvals, execution_history, now, nextOid>>
    /\ UNCHANGED <<opportunities, result, is_running, scan_thread, loops, callers,
                   inflight, stats, cursor, agents, executor>>

\* AutonomousExecutor.validate_safety_checks(opportunity)
ValidateSafetyChecks(opp, gas_price, balance, agent_network) ==
    /\ LET v == validate_safety_checks(executor, connector, opp, gas_price, balance,
                                       agent_network)
       IN last' = ExecutorCall("validate_safety_checks", opp, v, FALSE)
    /\ UNCHANGED <<config, avocado, pending_approvals, execution_history, now, nextOid>>
    /\ UNCHANGED scanVars

\* AutonomousExecutor.scan_and_execute_arbitrage([pair], dexes): one pair
ScanAndExecute(net_profit, gas_price, balance, agent_network, outcome) ==
    /\ Len(executor.executed_opportunities) + Len(executor.failed_opportunities)
          < MaxHistory
    /\ LET answer == analyze_arbitrage_opportunity(MonitoredPairs[1], net_profit)
           r == scan_and_execute_pair(executor, connector, answer, gas_price, balance,
                                      agent_network, outcome)
       IN /\ executor' = r.executor
          /\ last' = ExecutorCall("scan_and_execute_arbitrage",
                                  generate_strategy_with_ai(answer), r.validation,
                                  r.executed)
    /\ UNCHANGED <<config, avocado, pending_approvals, execution_history, now, nextOid>>
    /\ UNCHANGED <<opportunities, result, is_running, scan_thread, loops, callers,
                   inflight, stats, cursor, agents, connector>>

NextExecutor ==
    \/ \E address \in WalletAddresses, rpc \in BOOLEAN, balance \in BalanceValues :
          ConnectWallet(address, rpc, balance)
    \/ DisconnectWallet
    \/ \E opp \in ValidatedOpportunities, gas_price \in GasPriceValues,
          balance \in BalanceValues, agent_network \in AgentNetworks :
          ValidateSafetyChecks(opp, gas_price, balance, agent_network)
    \/ \E net_profit \in SourceProfits, gas_price \in GasPriceValues,
          balance \in BalanceValues, agent_network \in AgentNetworks,
          outcome \in CallOutcomes :
          ScanAndExecute(net_profit, gas_price, balance, agent_network, outcome)

SpecExecutor == Init /\ [][NextExecutor]_vars

\* C38: a connect_wallet that reports failure leaves the connection state of
\* the connector as it was, so a disconnected connector stays disconnected
\* with no wallet address.
C38_FailedConnectChangesNothing ==
    [][(last'.op = "connect_wallet" /\ ~last'.ret) => connector' = connector]_vars

\* a call of validate_safety_checks, directly or from scan_and_execute_arbitrage,
\* that returned
Validates == last'.op \in {"validate_safety_checks", "scan_and_execute_arbitrage"}
                /\ ~last'.validation.raised

\* C39: validate_safety_checks returns passed exactly when its errors list is
\* empty, every one of the six checks adds one entry to checks or to errors,
\* a warning does not fail the validation, and scan_and_execute_arbitrage
\* executes (and records an execution) only when the validation passed.
C39_PassedIffNoErrors ==
    [][/\ Validates =>
            /\ last'.validation.passed <=> last'.validation.errors = << >>
            /\ Len(last'.validation.checks) + Len(last'.validation.errors) = 6
            /\ last'.validation.errors = << >> /\ last'.validation.warnings # << >>
                  => last'.validation.passed
       /\ last'.op = "scan_and_execute_arbitrage" =>
            /\ last'.ret => ~last'.validation.raised /\ last'.validation.passed
            /\ executor' # executor => last'.ret
       /\ last'.op = "validate_safety_checks" => executor' = executor]_vars

\* an opportunity was executed after its validation passed, and a later
\* validation passed all six checks with a slippage warning
C39_Witness ==
    /\ Len(executor.executed_opportunities) > 0
    /\ last.op = "validate_safety_checks"
    /\ last.validation.passed
    /\ Len(last.validation.checks) = 6
    /\ last.validation.warnings # << >>

====
